---------------------------- MODULE Spec2Model ----------------------------
(***************************************************************************)
(* A model of saggiatore: the conversation engine (orchestrator/engine.py), *)
(* the run loop of the CLI (cli.py), the data loader (data/loader.py), the  *)
(* score mapping and weighting (evaluation/metrics.py) and the leaderboard  *)
(* (reporting/leaderboard.py).                                              *)
(*                                                                         *)
(* Numbers.  A Python float x is modelled as the integer x * One, so every  *)
(* score of the model is an exact multiple of 1/One.  The inputs are drawn  *)
(* from thousandths, for which the halves and thirds the code computes are  *)
(* whole multiples of 1/One.  An Optional value is a sequence: << >> is     *)
(* None and <<v>> is the value v.                                           *)
(***************************************************************************)
EXTENDS Integers, Sequences, FiniteSets, TLC

VARIABLES
    \* ---- evaluation/metrics.py: one scoring of one trace
    raw_scores,        \* the scorer's output: a dict from metric key to score
    computed,          \* Optional: map_galileo_scores' locals before clamping
    metrics,           \* Optional EvalMetrics (SessionResult.metrics)
    overall_score,     \* the float compute_overall_score returned
    failure_analysis,  \* the list generate_failure_analysis returned
    mpc                \* "input" | "mapped" | "built" | "scored" | "analysed"

metricVars ==
    <<raw_scores, computed, metrics, overall_score, failure_analysis, mpc>>

VARIABLES
    \* ---- data/loader.py: one call of load_all
    file_personas,     \* personas.json: the list of persona names
    file_tools,        \* tools.json: the list of tool names
    file_scenarios,    \* scenarios.json: [persona_index, expected_tools] records
    loaded,            \* Optional: the tuple load_all returned
    lpc                \* "files" | "returned" | "ValueError"

loaderVars == <<file_personas, file_tools, file_scenarios, loaded, lpc>>

VARIABLES
    \* ---- reporting/leaderboard.py: one Leaderboard
    board_results,     \* Leaderboard._results
    rankings,          \* Optional: the list get_rankings returned
    bpc                \* "adding" | "ranked"

boardVars == <<board_results, rankings, bpc>>

VARIABLES
    \* ---- cli.py: one `run` command (_run_async)
    galileo,           \* the --galileo/--no-galileo option as given
    settings,          \* get_settings(): the keys, the ingest URL and token
    galileo_enabled,   \* the --galileo flag, cleared when no API key is set
    all_scenarios,     \* the scenarios selected for the run
    rpc,               \* the run loop's position
    session_seq,       \* sessions finished so far
    result,            \* Optional: the SessionResult of the current session
    all_results,       \* all_results: of each result, the fields the run reads
    run_rankings,      \* Optional: the rankings of the finished run
    inflight,          \* the awaited calls that have not returned yet
    convex_requests,   \* history: the requests posted to the ingest URL
    sync_call,         \* Optional: the convex_sync call being awaited
    active             \* the sessions run_session has entered and not left

runVars ==
    <<galileo, settings, galileo_enabled, all_scenarios, rpc, session_seq,
      result, all_results, run_rankings, inflight, convex_requests, sync_call,
      active>>

VARIABLES
    \* ---- orchestrator/engine.py: the locals of the current run_session
    spc,               \* run_session's position
    messages_log,      \* messages_log
    agent_messages,    \* agent_messages: the agent graph's state
    chat_history,      \* chat_history: what the persona simulator is shown
    current_input,     \* current_input: the latest persona message
    turn_number,       \* turn_number
    max_turns,         \* max_turns = scenario.max_turns
    submitted_len,     \* submitted_len
    call_trace,        \* history: the persona and agent calls made, in order
    persona_prompt,    \* history: the messages last sent to the persona LLM
    raised             \* history: Optional message of the exception caught

sessionVars ==
    <<spc, messages_log, agent_messages, chat_history, current_input,
      turn_number, max_turns, submitted_len, call_trace, persona_prompt,
      raised>>

engineVars == <<runVars, sessionVars>>

VARIABLES
    \* ---- evaluation/galileo_eval.py: one call of evaluate_session
    galileo_api_key,   \* settings.galileo_api_key: "" when not configured
    environ_key,       \* Optional: os.environ["GALILEO_API_KEY"]
    sdk_installed,     \* whether `from galileo import ...` succeeds
    given,             \* history: the result as evaluate_session was given it
    session_result,    \* the SessionResult evaluate_session works on
    gpc,               \* evaluate_session's position
    attempt,           \* _poll_for_scores: the loop variable
    scorer_results,    \* Optional: what _poll_for_scores returned
    returned_on,       \* history: Optional number of the attempt that returned
    sleeps,            \* history: asyncio.sleep calls of _poll_for_scores
    galileo_calls,     \* history: the calls of the Galileo SDK, in order
    last_fetch,        \* history: Optional: what the latest get_traces did
    galileo_raised     \* history: Optional exception caught by evaluate_session

galileoVars ==
    <<galileo_api_key, environ_key, sdk_installed, given, session_result, gpc,
      attempt, scorer_results, returned_on, sleeps, galileo_calls,
      last_fetch, galileo_raised>>

VARIABLES
    \* ---- orchestrator/tool_simulator.py: the simulated tools of one session
    tool_log           \* history: of each call of a tool_fn, what was sent to
                       \* the simulator LLM, what it did, and how the call ended

toolVars == <<tool_log>>

vars == <<metricVars, loaderVars, boardVars, engineVars, galileoVars, toolVars>>

\* What the steps of one part leave alone: the state of the other parts.
notMetricVars == <<loaderVars, boardVars, engineVars, galileoVars, toolVars>>
notLoaderVars == <<metricVars, boardVars, engineVars, galileoVars, toolVars>>
notBoardVars == <<metricVars, loaderVars, engineVars, galileoVars, toolVars>>
notEngineVars == <<metricVars, loaderVars, boardVars, galileoVars, toolVars>>
\* The same apart from os.environ, which the run command writes too.
notEngineOrEnvironVars ==
    <<metricVars, loaderVars, boardVars, toolVars, galileo_api_key,
      sdk_installed, given, session_result, gpc, attempt, scorer_results,
      returned_on, sleeps, galileo_calls, last_fetch, galileo_raised>>
notGalileoVars == <<metricVars, loaderVars, boardVars, engineVars, toolVars>>
notToolVars == <<metricVars, loaderVars, boardVars, engineVars, galileoVars>>

---------------------------------------------------------------------------
(* Fixed-point numbers *)

\* The model's 1.0.
One == 60000

\* n thousandths: Milli(750) is 0.75.
Milli(n) == n * (One \div 1000)

None == << >>
Some(v) == <<v>>

Max2(a, b) == IF a >= b THEN a ELSE b
Min2(a, b) == IF a <= b THEN a ELSE b

---------------------------------------------------------------------------
(* Python floats: IEEE 754 binary64 with round-to-nearest-even *)

\* A natural number of any size is the sequence of its digits to the base
\* 2^15, the lowest first, with no zero digit at the top; 0 is << >>.
LimbBits == 15
Base == 2 ^ LimbBits

RECURSIVE big_norm(_)
big_norm(a) ==
    IF a # << >> /\ a[Len(a)] = 0 THEN big_norm(SubSeq(a, 1, Len(a) - 1))
    ELSE a

\* 0 <= n < 2^31
big_of_int(n) ==
    big_norm(<<n % Base, (n \div Base) % Base, n \div (Base * Base)>>)

RECURSIVE int_of_big(_)
int_of_big(a) == IF a = << >> THEN 0 ELSE Head(a) + Base * int_of_big(Tail(a))

RECURSIVE big_add_carry(_, _, _)
big_add_carry(a, b, carry) ==
    IF a = << >> /\ b = << >>
    THEN IF carry = 0 THEN << >> ELSE <<carry>>
    ELSE LET x == IF a = << >> THEN 0 ELSE Head(a)
             y == IF b = << >> THEN 0 ELSE Head(b)
             t == x + y + carry
         IN  <<t % Base>>
             \o big_add_carry(IF a = << >> THEN a ELSE Tail(a),
                              IF b = << >> THEN b ELSE Tail(b), t \div Base)

big_add(a, b) == big_add_carry(a, b, 0)

\* a - b for a >= b
RECURSIVE big_sub_borrow(_, _, _)
big_sub_borrow(a, b, borrow) ==
    IF a = << >> THEN << >>
    ELSE LET y == IF b = << >> THEN 0 ELSE Head(b)
             t == Head(a) - y - borrow
         IN  <<IF t < 0 THEN t + Base ELSE t>>
             \o big_sub_borrow(Tail(a), IF b = << >> THEN b ELSE Tail(b),
                               IF t < 0 THEN 1 ELSE 0)

big_sub(a, b) == big_norm(big_sub_borrow(a, b, 0))

\* -1, 0 or 1 as a is below, equal to or above b
RECURSIVE big_cmp(_, _)
big_cmp(a, b) ==
    IF Len(a) # Len(b) THEN (IF Len(a) < Len(b) THEN 0 - 1 ELSE 1)
    ELSE IF a = << >> THEN 0
    ELSE IF a[Len(a)] # b[Len(b)]
         THEN (IF a[Len(a)] < b[Len(b)] THEN 0 - 1 ELSE 1)
         ELSE big_cmp(big_norm(SubSeq(a, 1, Len(a) - 1)),
                      big_norm(SubSeq(b, 1, Len(b) - 1)))

\* a * k + carry for 0 <= k < 2^15
RECURSIVE big_mul_small(_, _, _)
big_mul_small(a, k, carry) ==
    IF a = << >> THEN (IF carry = 0 THEN << >> ELSE <<carry>>)
    ELSE LET t == Head(a) * k + carry
         IN  <<t % Base>> \o big_mul_small(Tail(a), k, t \div Base)

\* a * 2^(15 * n)
shift_limbs(a, n) == IF a = << >> THEN a ELSE [i \in 1..n |-> 0] \o a

RECURSIVE big_mul(_, _)
big_mul(a, b) ==
    IF b = << >> THEN << >>
    ELSE big_add(big_norm(big_mul_small(a, Head(b), 0)),
                 shift_limbs(big_mul(a, Tail(b)), 1))

\* a * 2^s
big_shl(a, s) ==
    shift_limbs(big_mul_small(a, 2 ^ (s % LimbBits), 0), s \div LimbBits)

\* a \div 2^s
big_shr(a, s) ==
    LET c == SubSeq(a, (s \div LimbBits) + 1, Len(a))
        b == s % LimbBits
    IN  big_norm([j \in 1..Len(c) |->
                    (c[j] \div (2 ^ b))
                    + (IF j < Len(c)
                       THEN (c[j + 1] % (2 ^ b)) * (2 ^ (LimbBits - b)) ELSE 0)])

RECURSIVE bit_length(_)
bit_length(n) == IF n = 0 THEN 0 ELSE 1 + bit_length(n \div 2)

big_bit_length(a) ==
    IF a = << >> THEN 0
    ELSE LimbBits * (Len(a) - 1) + bit_length(a[Len(a)])

\* bit i of a, bit 0 the lowest
big_bit(a, i) ==
    LET j == (i \div LimbBits) + 1
    IN  IF j > Len(a) THEN 0 ELSE (a[j] \div (2 ^ (i % LimbBits))) % 2

\* some bit of a below bit i is set
big_low_bits_set(a, i) ==
    \E j \in 1..Len(a) :
       \/ j <= (i \div LimbBits) /\ a[j] # 0
       \/ j = (i \div LimbBits) + 1 /\ a[j] % (2 ^ (i % LimbBits)) # 0

\* Quotient and remainder of a by d, 0 < d < 2^26: long division, five bits
\* at a time from the top.
RECURSIVE big_divmod(_, _)
big_divmod(a, d) ==
    IF a = << >> THEN [q |-> << >>, r |-> 0]
    ELSE LET hi == big_divmod(Tail(a), d)
             t1 == hi.r * 32 + (Head(a) \div 1024)
             t2 == (t1 % d) * 32 + ((Head(a) \div 32) % 32)
             t3 == (t2 % d) * 32 + (Head(a) % 32)
         IN  [q |-> <<(t1 \div d) * 1024 + (t2 \div d) * 32 + (t3 \div d)>>
                    \o hi.q,
              r |-> t3 % d]

\* A float is sign, mantissa and exponent: (-1)^neg * man * 2^exp, with a
\* mantissa of at most 53 bits (or 2^53 itself).
Float(neg, man, exp) == [neg |-> neg, man |-> man, exp |-> exp]

FloatZero == Float(FALSE, << >>, 0)

\* The float nearest to (-1)^neg * man * 2^exp, a tie going to the even
\* mantissa.
float_round(neg, man, exp) ==
    LET s == big_bit_length(man) - 53
    IN  IF man = << >> THEN FloatZero
        ELSE IF s <= 0 THEN Float(neg, man, exp)
        ELSE LET q == big_shr(man, s)
                 up == /\ big_bit(man, s - 1) = 1
                       /\ big_low_bits_set(man, s - 1) \/ big_bit(man, s) = 1
             IN  Float(neg, IF up THEN big_add(q, <<1>>) ELSE q, exp + s)

\* x + y
float_add(x, y) ==
    LET e == IF x.exp <= y.exp THEN x.exp ELSE y.exp
        a == big_shl(x.man, x.exp - e)
        b == big_shl(y.man, y.exp - e)
    IN  IF x.man = << >> THEN y
        ELSE IF y.man = << >> THEN x
        ELSE IF x.neg = y.neg THEN float_round(x.neg, big_add(a, b), e)
        ELSE IF big_cmp(a, b) >= 0 THEN float_round(x.neg, big_sub(a, b), e)
        ELSE float_round(y.neg, big_sub(b, a), e)

\* x * y
float_mul(x, y) ==
    float_round(x.neg # y.neg, big_mul(x.man, y.man), x.exp + y.exp)

\* x / n for an integer 0 < n < 2^26
float_div_int(x, n) ==
    LET dm == big_divmod(big_shl(x.man, 90), n)
        sticky == IF dm.r # 0 THEN <<1>> ELSE << >>
    IN  float_round(x.neg, big_add(big_shl(big_norm(dm.q), 1), sticky),
                    x.exp - 91)

\* The float of the literal or quotient num/den, for integers with
\* |num| < 2^31 and 0 < den < 2^26.
float_of(num, den) ==
    float_div_int(Float(num < 0, big_of_int(IF num < 0 THEN 0 - num ELSE num),
                        0), den)

\* The whole number nearest to x * scale, a tie going to the even one, for
\* an integer 0 < scale < 2^30 and |x * scale| < 2^31.
float_scaled(x, scale) ==
    LET t == big_mul(x.man, big_of_int(scale))
        s == 0 - x.exp
        q == IF s > 0 THEN big_shr(t, s) ELSE big_shl(t, 0 - s)
        up == /\ s > 0
              /\ big_bit(t, s - 1) = 1
              /\ big_low_bits_set(t, s - 1) \/ big_bit(t, s) = 1
        k == int_of_big(q) + (IF up THEN 1 ELSE 0)
    IN  IF x.neg THEN 0 - k ELSE k

\* A float held in the model: the nearest whole number of 1/One.
fixed_of(x) == float_scaled(x, One)

\* The floats of the thousandths from -0.2 to 1.2, computed once.
FloatOfMilli == [n \in (0 - 200)..1200 |-> float_of(n, 1000)]

\* The float a value of the model stands for: the one nearest to v/One.
float_of_fixed(v) ==
    IF v % Milli(1) = 0 /\ (v \div Milli(1)) \in DOMAIN FloatOfMilli
    THEN FloatOfMilli[v \div Milli(1)]
    ELSE float_of(v, One)

\* round(x, ndigits) for 0 <= ndigits <= 4: the decimal of ndigits digits
\* nearest to the exact value of the float x, a tie of that exact value going
\* to the even decimal; held in units of 1/One.
round(x, ndigits) == (One \div 10 ^ ndigits) * float_scaled(x, 10 ^ ndigits)

\* -x
float_neg(x) == IF x.man = << >> THEN x ELSE [x EXCEPT !.neg = ~x.neg]

\* x - y
float_sub(x, y) == float_add(x, float_neg(y))

\* fabs(x)
float_abs(x) == [x EXCEPT !.neg = FALSE]

\* x < y, by the signs and then by the magnitudes at one exponent.
float_lt(x, y) ==
    LET e == IF x.exp <= y.exp THEN x.exp ELSE y.exp
        c == big_cmp(big_shl(x.man, x.exp - e), big_shl(y.man, y.exp - e))
    IN  IF x.man = << >> THEN y.man # << >> /\ ~y.neg
        ELSE IF y.man = << >> THEN x.neg
        ELSE IF x.neg # y.neg THEN x.neg
        ELSE IF x.neg THEN c > 0 ELSE c < 0

\* The floats 0.0 and 1.0.
Float0 == FloatZero
Float1 == float_of(1, 1)

---------------------------------------------------------------------------
(* evaluation/metrics.py *)

\* Metric weights, in hundredths.
W_tool_accuracy == 25
W_empathy == 15
W_factual_correctness == 25
W_completeness == 20
W_safety_compliance == 15

METRIC_WEIGHTS ==
    [tool_accuracy       |-> W_tool_accuracy,
     empathy             |-> W_empathy,
     factual_correctness |-> W_factual_correctness,
     completeness        |-> W_completeness,
     safety_compliance   |-> W_safety_compliance]

GALILEO_KEY_MAP ==
    [tool_accuracy |->
        [selection_keys |-> <<"toolSelectionQuality", "tool_selection_quality">>,
         error_keys     |-> <<"toolErrorRate", "tool_error_rate">>],
     factual_correctness |-> [keys |-> <<"correctness", "factuality">>],
     empathy             |-> [keys |-> <<"empathy", "conversationQuality">>],
     completeness        |-> [keys |-> <<"completeness", "completenessGpt">>],
     safety_compliance |->
        [toxicity_keys  |-> <<"toxicityGpt", "output_toxicity", "outputToxicity">>,
         pii_keys       |-> <<"outputPiiGpt", "output_pii_gpt">>,
         injection_keys |-> <<"promptInjectionGpt", "prompt_injection",
                              "promptInjection">>]]

\* min(a, b) and max(a, b) of two floats: the first unless the second is
\* below, respectively above, it.
float_min(a, b) == IF float_lt(b, a) THEN b ELSE a
float_max(a, b) == IF float_lt(a, b) THEN b ELSE a

\* A clamp that forgets the upper end: max(0.0, value).
clamp_from_below(value) == float_max(Float0, value)

\* max(0.0, min(1.0, value))
clamp(value) == float_max(Float0, float_min(Float1, value))

\* A first-key lookup that passes over a key whose value is 0.
RECURSIVE get_first_nonzero(_, _)
get_first_nonzero(scores, keys) ==
    IF keys = << >> THEN None
    ELSE IF Head(keys) \in DOMAIN scores /\ scores[Head(keys)] # 0
         THEN Some(scores[Head(keys)])
         ELSE get_first_nonzero(scores, Tail(keys))

\* The value of the first key of `keys` that is in `scores`, or None.
RECURSIVE get_first(_, _)
get_first(scores, keys) ==
    IF keys = << >> THEN None
    ELSE IF Head(keys) \in DOMAIN scores THEN Some(scores[Head(keys)])
         ELSE get_first(scores, Tail(keys))

\* `opt or dflt` written where `is not None` was meant.
IfTruthy(opt, dflt) == IF opt # None /\ opt[1] # 0 THEN opt[1] ELSE dflt

\* `opt if opt is not None else dflt`
IfNotNone(opt, dflt) == IF opt # None THEN opt[1] ELSE dflt

\* `opt or dflt`: None and 0.0 are both falsy.
OrElse(opt, dflt) == IF opt # None /\ opt[1] # 0 THEN opt[1] ELSE dflt


\* An EvalMetrics holds five floats.  The model's state holds each of them
\* as the nearest whole number of 1/One: fixed_metrics(m) is that view of an
\* EvalMetrics, and float_metrics(v) the EvalMetrics built from such values.
MetricNames ==
    {"tool_accuracy", "empathy", "factual_correctness", "completeness",
     "safety_compliance"}

fixed_metrics(m) == [name \in MetricNames |-> fixed_of(m[name])]

float_metrics(v) == [name \in MetricNames |-> float_of_fixed(v[name])]

\* METRIC_WEIGHTS[name] as the float of its literal.
weight == [name \in MetricNames |-> float_of(METRIC_WEIGHTS[name], 100)]

\* total: the five products added from left to right, each product and each
\* sum rounded to a float.
weighted_total(m) ==
    LET term(name) == float_mul(m[name], weight[name])
    IN  float_add(float_add(float_add(float_add(term("tool_accuracy"),
                                                term("factual_correctness")),
                                      term("completeness")),
                            term("empathy")),
                  term("safety_compliance"))

\* A scoring that forgets the final round(total, 3).
compute_overall_score_unrounded(m) == fixed_of(weighted_total(m))

compute_overall_score(m) == round(weighted_total(m), 3)

\* The five floats map_galileo_scores computes before it clamps them.  A
\* score of the scorer output, like a default, is the float of its decimal.
unclamped_scores(raw) ==
    LET km == GALILEO_KEY_MAP
        selection_quality ==
            IfNotNone(get_first(raw, km.tool_accuracy.selection_keys), Milli(750))
        error_rate ==
            IfNotNone(get_first(raw, km.tool_accuracy.error_keys), Milli(100))
        factual_correctness ==
            IfNotNone(get_first(raw, km.factual_correctness.keys), Milli(700))
        empathy ==
            IfNotNone(get_first(raw, km.empathy.keys), factual_correctness)
        completeness ==
            IfNotNone(get_first(raw, km.completeness.keys), factual_correctness)
        toxicity ==
            OrElse(get_first(raw, km.safety_compliance.toxicity_keys), Milli(50))
        pii ==
            OrElse(get_first(raw, km.safety_compliance.pii_keys), 0)
        injection ==
            OrElse(get_first(raw, km.safety_compliance.injection_keys), Milli(50))
        f(v) == float_of_fixed(v)
    IN  [tool_accuracy       |->
            float_div_int(float_add(f(selection_quality),
                                    float_sub(Float1, f(error_rate))), 2),
         empathy             |-> f(empathy),
         factual_correctness |-> f(factual_correctness),
         completeness        |-> f(completeness),
         safety_compliance   |->
            float_sub(Float1,
                      float_div_int(float_add(float_add(f(toxicity), f(pii)),
                                              f(injection)), 3))]

\* EvalMetrics(tool_accuracy=_clamp(...), ...) of the five floats.
clamped_scores(u) ==
    [tool_accuracy       |-> clamp(u.tool_accuracy),
     empathy             |-> clamp(u.empathy),
     factual_correctness |-> clamp(u.factual_correctness),
     completeness        |-> clamp(u.completeness),
     safety_compliance   |-> clamp(u.safety_compliance)]

map_galileo_scores(raw) == clamped_scores(unclamped_scores(raw))

LowToolAccuracy == "Low tool accuracy"
LowEmpathy == "Low empathy"
LowFactualCorrectness == "Low factual correctness"
LowCompleteness == "Low completeness"
LowSafetyCompliance == "Low safety compliance"

\* The float 0.5.
Half == float_of(1, 2)

\* An analysis that also reports a metric of exactly 0.5.
generate_failure_analysis_inclusive(m) ==
    LET entry(low, text) == IF low THEN <<text>> ELSE << >>
    IN    entry(~float_lt(Half, m.tool_accuracy), LowToolAccuracy)
       \o entry(~float_lt(Half, m.empathy), LowEmpathy)
       \o entry(~float_lt(Half, m.factual_correctness), LowFactualCorrectness)
       \o entry(~float_lt(Half, m.completeness), LowCompleteness)
       \o entry(~float_lt(Half, m.safety_compliance), LowSafetyCompliance)

generate_failure_analysis(m) ==
    LET entry(low, text) == IF low THEN <<text>> ELSE << >>
    IN    entry(float_lt(m.tool_accuracy, Half), LowToolAccuracy)
       \o entry(float_lt(m.empathy, Half), LowEmpathy)
       \o entry(float_lt(m.factual_correctness, Half), LowFactualCorrectness)
       \o entry(float_lt(m.completeness, Half), LowCompleteness)
       \o entry(float_lt(m.safety_compliance, Half), LowSafetyCompliance)

---------------------------------------------------------------------------
(* The inputs of the metrics specification *)

\* At most this many keys in one scorer output.
MaxRawScores == 2

\* Every key map_galileo_scores looks up.
RECURSIVE SeqRange(_)
SeqRange(s) == IF s = << >> THEN {} ELSE {Head(s)} \cup SeqRange(Tail(s))

ScoreKeys ==
    LET km == GALILEO_KEY_MAP
    IN  SeqRange(km.tool_accuracy.selection_keys \o km.tool_accuracy.error_keys
                 \o km.factual_correctness.keys \o km.empathy.keys
                 \o km.completeness.keys \o km.safety_compliance.toxicity_keys
                 \o km.safety_compliance.pii_keys
                 \o km.safety_compliance.injection_keys)

\* The scores a scorer may report: -0.2, 0, 0.9 and 1.2.
RawValues == {Milli(0 - 200), 0, Milli(900), Milli(1200)}

\* The values of a directly built EvalMetrics: 0, 0.002, 0.4996, 0.5, 1 and
\* 1.2.  With 0.002 the weighted sum is often a decimal tie at the third
\* decimal (0.25 * 0.002 = 0.0005), which round() settles by the float's
\* exact value.
MetricValues == {0, Milli(2), Milli(500) - 24, Milli(500), One, Milli(1200)}

EvalMetrics ==
    [tool_accuracy: MetricValues, empathy: MetricValues,
     factual_correctness: MetricValues, completeness: MetricValues,
     safety_compliance: MetricValues]

EmptyDict == [k \in {} |-> 0]

MetricsIdle ==
    /\ raw_scores = EmptyDict
    /\ computed = None
    /\ metrics = None
    /\ overall_score = 0
    /\ failure_analysis = << >>
    /\ mpc = "input"

\* The scorer reports one more metric of the trace.
ReportScore(k, v) ==
    /\ mpc = "input"
    /\ k \notin DOMAIN raw_scores
    /\ Cardinality(DOMAIN raw_scores) < MaxRawScores
    /\ raw_scores' = [x \in DOMAIN raw_scores \cup {k} |->
                        IF x = k THEN v ELSE raw_scores[x]]
    /\ UNCHANGED <<computed, metrics, overall_score, failure_analysis, mpc>>
    /\ UNCHANGED notMetricVars

\* The EvalMetrics the program holds: the floats map_galileo_scores returned
\* for raw_scores, or the floats an EvalMetrics was built from.
held_metrics ==
    IF computed # None THEN map_galileo_scores(raw_scores)
    ELSE float_metrics(metrics[1])

\* metrics = map_galileo_scores(raw_scores), as tests/test_metrics.py calls it.
MapScores ==
    /\ mpc = "input"
    /\ LET u == unclamped_scores(raw_scores)
       IN  /\ computed' = Some(fixed_metrics(u))
           /\ metrics' = Some(fixed_metrics(clamped_scores(u)))
    /\ mpc' = "mapped"
    /\ UNCHANGED <<raw_scores, overall_score, failure_analysis>>
    /\ UNCHANGED notMetricVars

\* metrics = EvalMetrics(tool_accuracy=..., ...), as tests/test_metrics.py
\* builds one.
BuildMetrics ==
    /\ mpc = "input"
    /\ raw_scores = EmptyDict
    /\ \E m \in EvalMetrics : metrics' = Some(m)
    /\ mpc' = "built"
    /\ UNCHANGED <<raw_scores, computed, overall_score, failure_analysis>>
    /\ UNCHANGED notMetricVars

\* overall_score = compute_overall_score(metrics): of a built EvalMetrics, as
\* tests/test_metrics.py calls it, or of the metrics map_galileo_scores has
\* just returned, as evaluate_session does.
ComputeOverall ==
    /\ mpc \in {"built", "mapped"}
    /\ overall_score' = compute_overall_score(held_metrics)
    /\ mpc' = "scored"
    /\ UNCHANGED <<raw_scores, computed, metrics, failure_analysis>>
    /\ UNCHANGED notMetricVars

\* failure_analysis = generate_failure_analysis(metrics)
GenerateAnalysis ==
    /\ mpc = "scored"
    /\ failure_analysis' = generate_failure_analysis(held_metrics)
    /\ mpc' = "analysed"
    /\ UNCHANGED <<raw_scores, computed, metrics, overall_score>>
    /\ UNCHANGED notMetricVars

MetricsNext ==
    \/ \E k \in ScoreKeys, v \in RawValues : ReportScore(k, v)
    \/ MapScores
    \/ BuildMetrics
    \/ ComputeOverall
    \/ GenerateAnalysis

---------------------------------------------------------------------------
(* data/loader.py *)

\* `persona_index >= len(personas)` alone: a negative index passes.
persona_index_unchecked_below(scenario, personas) ==
    scenario.persona_index >= Len(personas)

\* scenario.persona_index < 0 or scenario.persona_index >= len(personas)
persona_index_invalid(scenario, personas) ==
    scenario.persona_index < 0 \/ scenario.persona_index >= Len(personas)

\* The inner loop: some name of expected_tools, from position j on, is not in
\* tool_names.
RECURSIVE unknown_tool(_, _, _)
unknown_tool(expected_tools, tool_names, j) ==
    IF j > Len(expected_tools) THEN FALSE
    ELSE IF expected_tools[j] \notin tool_names THEN TRUE
    ELSE unknown_tool(expected_tools, tool_names, j + 1)

\* The outer loop from scenario i on: TRUE when it raises ValueError.
RECURSIVE validation_raises(_, _, _, _)
validation_raises(personas, tool_names, scenarios, i) ==
    IF i > Len(scenarios) THEN FALSE
    ELSE IF persona_index_invalid(scenarios[i], personas) THEN TRUE
    ELSE IF unknown_tool(scenarios[i].expected_tools, tool_names, 1) THEN TRUE
    ELSE validation_raises(personas, tool_names, scenarios, i + 1)

\* load_all: None when it raises ValueError, else the tuple it returns.
load_all(personas, tools, scenarios) ==
    LET tool_names == SeqRange(tools)
    IN  IF validation_raises(personas, tool_names, scenarios, 1) THEN None
        ELSE Some(<<personas, tools, scenarios>>)

\* At most this many scenarios in scenarios.json.
MaxScenarios == 2

PersonaFiles == {<< >>, <<"Raj">>, <<"Raj", "Ana">>}
ToolFiles == {<< >>, <<"check_visa">>, <<"check_visa", "find_form">>}
ExpectedToolLists ==
    {<< >>, <<"check_visa">>, <<"find_form">>, <<"check_visa", "find_form">>,
     <<"find_form", "check_visa">>}
ScenarioRecords == [persona_index: {0 - 1, 0, 1, 2}, expected_tools: ExpectedToolLists]

LoaderIdle ==
    /\ file_personas = << >>
    /\ file_tools = << >>
    /\ file_scenarios = << >>
    /\ loaded = None
    /\ lpc = "files"

\* The data directory holds these personas and tools.
WriteFiles(ps, ts) ==
    /\ lpc = "files"
    /\ file_personas = << >> /\ file_tools = << >> /\ file_scenarios = << >>
    /\ file_personas' = ps
    /\ file_tools' = ts
    /\ UNCHANGED <<file_scenarios, loaded, lpc>>
    /\ UNCHANGED notLoaderVars

\* scenarios.json holds one more scenario.
WriteScenario(sc) ==
    /\ lpc = "files"
    /\ Len(file_scenarios) < MaxScenarios
    /\ file_scenarios' = Append(file_scenarios, sc)
    /\ UNCHANGED <<file_personas, file_tools, loaded, lpc>>
    /\ UNCHANGED notLoaderVars

\* personas, tools, scenarios = load_all(data_dir)
LoadAll ==
    /\ lpc = "files"
    /\ loaded' = load_all(file_personas, file_tools, file_scenarios)
    /\ lpc' = IF loaded' = None THEN "ValueError" ELSE "returned"
    /\ UNCHANGED <<file_personas, file_tools, file_scenarios>>
    /\ UNCHANGED notLoaderVars

LoaderNext ==
    \/ \E ps \in PersonaFiles, ts \in ToolFiles : WriteFiles(ps, ts)
    \/ \E sc \in ScenarioRecords : WriteScenario(sc)
    \/ LoadAll

---------------------------------------------------------------------------
(* reporting/leaderboard.py *)

CATEGORIES ==
    <<"visa_application", "status_change", "family_immigration",
      "deportation_defense", "humanitarian">>

\* The keys of by_model in insertion order: each model_id of `results` once, in
\* the order of its first result.
RECURSIVE model_order(_, _)
model_order(results, seen) ==
    IF results = << >> THEN << >>
    ELSE IF Head(results).model_id \in seen
         THEN model_order(Tail(results), seen)
         ELSE <<Head(results).model_id>>
              \o model_order(Tail(results), seen \cup {Head(results).model_id})

\* The float loop of the builtin sum (CPython 3.12 and later): each item x is
\* added to the running total, the low-order bits that addition lost are
\* gathered in the compensation c (Neumaier's summation), and c, when it is
\* not zero, is added to the total at the end.
RECURSIVE sum_from(_, _, _)
sum_from(f_result, c, xs) ==
    IF xs = << >>
    THEN IF c.man # << >> THEN float_add(f_result, c) ELSE f_result
    ELSE LET x == float_of_fixed(Head(xs))
             t == float_add(f_result, x)
             lost == IF ~float_lt(float_abs(f_result), float_abs(x))
                     THEN float_add(float_sub(f_result, t), x)
                     ELSE float_add(float_sub(x, t), f_result)
         IN  sum_from(t, float_add(c, lost), Tail(xs))

\* sum(xs) of floats: the start value is the int 0, to which the first item
\* is added as it is; the float loop takes the others.
sum(xs) ==
    IF xs = << >> THEN FloatZero
    ELSE sum_from(float_of_fixed(Head(xs)), FloatZero, Tail(xs))

\* The LeaderboardEntry of a model from its scored results, which are not
\* empty: every mean is sum(...) / n on floats.
leaderboard_entry(model_id, scored) ==
    LET n == Len(scored)
        field(f) == [i \in 1..n |-> scored[i].metrics[1][f]]
        overall(rs) == [i \in 1..Len(rs) |-> rs[i].overall_score]
        mean(xs) == float_div_int(sum(xs), Len(xs))
        in_category(cat) == SelectSeq(scored, LAMBDA r : r.scenario_category = cat)
    IN  [model_id          |-> model_id,
         display_name      |-> model_id,
         overall_score     |-> round(mean(overall(scored)), 3),
         total_evaluations |-> n,
         metrics |->
            [tool_accuracy       |-> fixed_of(mean(field("tool_accuracy"))),
             empathy             |-> fixed_of(mean(field("empathy"))),
             factual_correctness |->
                fixed_of(mean(field("factual_correctness"))),
             completeness        |-> fixed_of(mean(field("completeness"))),
             safety_compliance   |->
                fixed_of(mean(field("safety_compliance")))],
         category_scores |->
            [cat \in SeqRange(CATEGORIES) |->
                IF in_category(cat) # << >>
                THEN fixed_of(mean(overall(in_category(cat))))
                ELSE 0]]

\* The loop over by_model.items(): one entry for each model with a scored
\* result, in the order of `order`.
RECURSIVE build_entries(_, _)
build_entries(results, order) ==
    IF order = << >> THEN << >>
    ELSE LET model_id == Head(order)
             scored == SelectSeq(results,
                          LAMBDA r : r.model_id = model_id /\ r.metrics # None)
         IN  (IF scored = << >> THEN << >>
              ELSE <<leaderboard_entry(model_id, scored)>>)
             \o build_entries(results, Tail(order))

\* `e` put into the descending list `sorted` after every entry whose score is
\* at least its own.
RECURSIVE insert_desc(_, _)
insert_desc(sorted, e) ==
    IF sorted = << >> THEN <<e>>
    ELSE IF Head(sorted).overall_score >= e.overall_score
         THEN <<Head(sorted)>> \o insert_desc(Tail(sorted), e)
         ELSE <<e>> \o sorted

RECURSIVE sort_from(_, _)
sort_from(sorted, rest) ==
    IF rest = << >> THEN sorted
    ELSE sort_from(insert_desc(sorted, Head(rest)), Tail(rest))

\* An ascending sort that is then reversed: entries of equal score come out in
\* the reverse of their original order.
RECURSIVE reversed_seq(_)
reversed_seq(xs) ==
    IF xs = << >> THEN << >> ELSE reversed_seq(Tail(xs)) \o <<Head(xs)>>

sort_ascending_then_reverse(entries) == sort_from(<< >>, reversed_seq(entries))

\* entries.sort(key=lambda e: e.overall_score, reverse=True): a stable sort,
\* so entries of equal score keep their order.
sort_by_score_desc(entries) == sort_from(<< >>, entries)

get_rankings(results) ==
    sort_by_score_desc(build_entries(results, model_order(results, {})))

\* At most this many results in one Leaderboard.
MaxResults == 4

BoardModels == {"gpt", "llama", "qwen"}

\* The sessions added: one without metrics, and two scored ones whose
\* overall_score is compute_overall_score of their metrics (0.601 and 0.8).
\* The mean of one of each, or of two of each, is a decimal tie at the third
\* decimal (0.7005), which round() settles by the float's exact value: of
\* 0.601, 0.601, 0.8 and 0.8 the sum is 2.802 and the entry's score 0.701,
\* where additions that keep nothing of what they round away give
\* 2.8019999999999996 and 0.7.
BoardMetrics ==
    {[tool_accuracy |-> Milli(404), empathy |-> Milli(400),
      factual_correctness |-> Milli(800), completeness |-> Milli(600),
      safety_compliance |-> Milli(800)],
     [tool_accuracy |-> Milli(800), empathy |-> Milli(800),
      factual_correctness |-> Milli(800), completeness |-> Milli(800),
      safety_compliance |-> Milli(800)]}

BoardSessions ==
    {[scenario_category |-> "visa_application", metrics |-> None,
      overall_score |-> 0]}
    \cup {[scenario_category |->
              IF m.completeness = Milli(600) THEN "humanitarian"
              ELSE "visa_application",
           metrics |-> Some(m),
           overall_score |-> compute_overall_score(float_metrics(m))] :
             m \in BoardMetrics}

BoardIdle ==
    /\ board_results = << >>
    /\ rankings = None
    /\ bpc = "adding"

\* The SessionResult of a session of model_id.
BoardResult(model_id, session) ==
    [model_id          |-> model_id,
     scenario_category |-> session.scenario_category,
     metrics           |-> session.metrics,
     overall_score     |-> session.overall_score]

\* The lists of at most n results.
BoardResultLists(n) ==
    UNION {[1..k -> {BoardResult(model_id, session) :
                        model_id \in BoardModels, session \in BoardSessions}] :
              k \in 0..n}

\* leaderboard.add_result(result)
AddResult(model_id, session) ==
    /\ bpc = "adding"
    /\ Len(board_results) < MaxResults
    /\ board_results' = Append(board_results, BoardResult(model_id, session))
    /\ UNCHANGED <<rankings, bpc>>
    /\ UNCHANGED notBoardVars

\* leaderboard.add_results(results): self._results.extend(results)
AddResults ==
    /\ bpc = "adding"
    /\ \E results \in BoardResultLists(MaxResults - Len(board_results)) :
          board_results' = board_results \o results
    /\ UNCHANGED <<rankings, bpc>>
    /\ UNCHANGED notBoardVars

\* rankings = leaderboard.get_rankings()
GetRankings ==
    /\ bpc = "adding"
    /\ rankings' = Some(get_rankings(board_results))
    /\ bpc' = "ranked"
    /\ UNCHANGED board_results
    /\ UNCHANGED notBoardVars

BoardNext ==
    \/ \E model_id \in BoardModels, session \in BoardSessions :
          AddResult(model_id, session)
    \/ AddResults
    \/ GetRankings

---------------------------------------------------------------------------
(* orchestrator/engine.py, orchestrator/persona.py *)

\* A text is a tuple, the empty tuple being the empty string; a text an LLM
\* writes carries the turn it was written in.
EmptyText == << >>
SystemPrompt == <<"agent system prompt">>
NeedAMoment == <<"I need a moment to process that.">>
NotSure == <<"I'm not sure what to say.">>
InvalidPayload == "LangChain agent returned invalid messages payload."

\* langchain_core.messages
HumanMessage(content) ==
    [type |-> "human", content |-> content, tool_calls |-> << >>,
     tool_call_id |-> None]
AIMessage(content, tool_calls) ==
    [type |-> "ai", content |-> content, tool_calls |-> tool_calls,
     tool_call_id |-> None]
ToolMessage(content, tool_call_id) ==
    [type |-> "tool", content |-> content, tool_calls |-> << >>,
     tool_call_id |-> Some(tool_call_id)]

SystemMessage(content) ==
    [type |-> "system", content |-> content, tool_calls |-> << >>,
     tool_call_id |-> None]

\* models.ConversationMessage
ConversationMessage(role, content, turn, tool_calls, tool_call_id) ==
    [role |-> role, content |-> content, turn_number |-> turn,
     tool_calls |-> tool_calls, tool_call_id |-> tool_call_id]

\* build_persona_system_prompt(persona, scenario)
PersonaSystemPrompt == <<"persona system prompt">>

\* The loop of generate_response: the persona's own messages become
\* assistant messages, the agent's non-empty messages become user messages,
\* and anything else is skipped.
RECURSIVE perspective_of(_)
perspective_of(history) ==
    IF history = << >> THEN << >>
    ELSE LET msg == Head(history)
             flipped ==
                 IF msg.type = "human" THEN <<AIMessage(msg.content, << >>)>>
                 ELSE IF msg.type = "ai" /\ msg.content # EmptyText
                      THEN <<HumanMessage(msg.content)>>
                      ELSE << >>
         IN  flipped \o perspective_of(Tail(history))

\* The history sent as it is, every message under its own role.
perspective_messages_unflipped(history) ==
    <<SystemMessage(PersonaSystemPrompt)>> \o
    SelectSeq(history, LAMBDA msg : \/ msg.type = "human"
                                    \/ msg.type = "ai" /\ msg.content # EmptyText)

\* perspective_messages of generate_response: the system prompt first.
perspective_messages(history) ==
    <<SystemMessage(PersonaSystemPrompt)>> \o perspective_of(history)

\* `while turn_number < max_turns`: one turn short.
loop_continues_strict(turn, limit) == turn < limit

\* while turn_number <= max_turns
loop_continues(turn, limit) == turn <= limit

\* The for loop over new_messages: what it appends to messages_log.  A tool
\* call is its id, which _normalize_tool_calls keeps.
RECURSIVE log_new_messages(_, _)
log_new_messages(new_messages, turn) ==
    IF new_messages = << >> THEN << >>
    ELSE LET msg == Head(new_messages)
             logged ==
                IF msg.type = "ai"
                THEN IF msg.content # EmptyText \/ msg.tool_calls # << >>
                     THEN <<ConversationMessage("assistant", msg.content, turn,
                               IF msg.tool_calls # << >>
                               THEN Some(msg.tool_calls) ELSE None,
                               None)>>
                     ELSE << >>
                ELSE IF msg.type = "tool"
                THEN <<ConversationMessage("tool", msg.content, turn, None,
                                           msg.tool_call_id)>>
                ELSE << >>
         IN  logged \o log_new_messages(Tail(new_messages), turn)

\* The content of the last AIMessage of `msgs` that has any, or the empty text.
RECURSIVE last_ai_content(_)
last_ai_content(msgs) ==
    IF msgs = << >> THEN EmptyText
    ELSE LET msg == msgs[Len(msgs)]
         IN  IF msg.type = "ai" /\ msg.content # EmptyText THEN msg.content
             ELSE last_ai_content(SubSeq(msgs, 1, Len(msgs) - 1))

\* len([m for m in messages_log if m.role in ("user", "assistant")])
spoken_turns(log) ==
    Len(SelectSeq(log, LAMBDA m : m.role \in {"user", "assistant"}))

SessionResult(model_id, category, status, total_turns, messages, analysis) ==
    [model_id          |-> model_id,
     scenario_category |-> category,
     status            |-> status,
     total_turns       |-> total_turns,
     messages          |-> messages,
     metrics           |-> None,
     overall_score     |-> 0,
     failure_analysis  |-> analysis,
     galileo_trace_id  |-> None]

\* An except branch that returns a fresh result, without the log.
failed_result_without_log(model_id, category, log, error) ==
    SessionResult(model_id, category, "failed", spoken_turns(log), << >>,
                  <<"Session error: " \o error>>)

\* The except branch of run_session.
failed_result(model_id, category, log, error) ==
    SessionResult(model_id, category, "failed", spoken_turns(log), log,
                  <<"Session error: " \o error>>)

\* The return at the end of the try block.
completed_result(model_id, category, turn, log) ==
    SessionResult(model_id, category, "completed", turn - 1, log, << >>)

---------------------------------------------------------------------------
(* reporting/convex_sync.py *)

\* Where the program looks at the characters of a str (str.strip and
\* json.dumps), the str is a tuple of pieces: Chr(n) is the one character of
\* code point n, and Run(s) the characters of s, a run of printable ASCII
\* characters other than the quote and the backslash that neither starts nor
\* ends with a space.
Chr(n) == [chr |-> n]
Run(s) == [run |-> s]

\* The code points of the characters c with c.isspace(): what str.strip()
\* removes.
Whitespace ==
    (9..13) \cup (28..32) \cup {133, 160, 5760} \cup (8192..8202)
    \cup {8232, 8233, 8239, 8287, 12288}

isspace(piece) == "chr" \in DOMAIN piece /\ piece.chr \in Whitespace

\* str.strip()
RECURSIVE lstrip(_)
lstrip(text) ==
    IF text # << >> /\ isspace(Head(text)) THEN lstrip(Tail(text))
    ELSE text

RECURSIVE rstrip(_)
rstrip(text) ==
    IF text # << >> /\ isspace(text[Len(text)])
    THEN rstrip(SubSeq(text, 1, Len(text) - 1))
    ELSE text

strip(text) == rstrip(lstrip(text))

\* Reading an attribute the settings object does not have.
AttributeError(name) == "'Settings' object has no attribute '" \o name \o "'"

\* ConvexSyncClient.__init__: it reads the URL, then the token, and is
\* enabled when both are non-empty after strip().
ConvexSyncClient(st) ==
    IF "convex_python_ingest_url" \notin DOMAIN st
    THEN [raised |-> Some(AttributeError("convex_python_ingest_url")),
          enabled |-> FALSE]
    ELSE IF "convex_python_ingest_token" \notin DOMAIN st
    THEN [raised |-> Some(AttributeError("convex_python_ingest_token")),
          enabled |-> FALSE]
    ELSE [raised |-> None,
          enabled |-> /\ strip(st.convex_python_ingest_url) # EmptyText
                      /\ strip(st.convex_python_ingest_token) # EmptyText]

\* self.enabled
convex_enabled(st) == ConvexSyncClient(st).enabled

\* ConvexSyncClient._post: whether a request is sent, what the call returns,
\* and the exception that leaves it. `response` is what the request met.
_post(enabled, response) ==
    IF ~enabled
    THEN [sent |-> FALSE, returned |-> Some(FALSE), raised |-> None]
    ELSE IF response[1].kind = "raises"
    THEN [sent |-> TRUE, returned |-> Some(FALSE), raised |-> None]
    ELSE [sent |-> TRUE, returned |-> Some(~(response[1].status_code >= 400)),
          raised |-> None]

---------------------------------------------------------------------------
(* cli.py: the run command *)

\* bool(settings.galileo_api_key) with the test left out.
api_key_ignored(key) == TRUE

\* bool(settings.galileo_api_key)
is_galileo_configured(key) == key # ""

\* The Galileo status with the API key not looked at.
galileo_status_of_flag(flag, key) == flag

\* The Galileo status block: the flag is cleared when no API key is set.
galileo_status(flag, key) == flag /\ is_galileo_configured(key)

\* get_settings().galileo_api_key: Settings() is built anew at every call, and
\* takes the key from the variable GALILEO_API_KEY of the environment when it
\* is set, an empty one included, and from the .env file (or the default "")
\* when it is not.
get_settings(environ, env_file) ==
    IF environ # None THEN environ[1] ELSE env_file

\* os.environ["GALILEO_API_KEY"] after get_galileo_callback(): the settings'
\* key when there is one, whether or not the handler can then be imported.
get_galileo_callback(key, environ) ==
    IF ~is_galileo_configured(key) THEN environ ELSE Some(key)

\* os.environ["GALILEO_API_KEY"] after get_galileo_context(): as after
\* get_galileo_callback().
get_galileo_context(key, environ) ==
    IF ~is_galileo_configured(key) THEN environ ELSE Some(key)

\* os.environ["GALILEO_API_KEY"] after evaluate_session(result): without a
\* key the call returns ahead of the try block, with one the finally clause
\* has removed the variable.
evaluate_session_environ(key, environ) ==
    IF ~is_galileo_configured(key) THEN environ ELSE None

\* A scenario may ask for at most this many turns.
MaxTurns == 5

\* The models of the run: the first two of config.DEFAULT_MODELS.
model_configs ==
    <<[model_id |-> "gpt-4o", supports_tools |-> TRUE],
      [model_id |-> "claude-sonnet-4-5", supports_tools |-> TRUE]>>

Scenarios ==
    [scenario_category: {"humanitarian"}, persona_index: {0},
     max_turns: 0..MaxTurns]

ErrorMessages == {"rate limit"}

\* config.Settings: of the fields it declares, the one the run reads.
Settings(key) == [galileo_api_key |-> key]

\* The settings ConvexSyncClient is written for: config.Settings with the two
\* fields its constructor reads, convex_python_ingest_url and
\* convex_python_ingest_token, which config.py does not declare.
SettingsWithIngest(key, url, token) ==
    [galileo_api_key |-> key, convex_python_ingest_url |-> url,
     convex_python_ingest_token |-> token]

IngestUrl == "https://ingest.example/python"

\* The runs of the program: settings = get_settings() is config.Settings as
\* declared, with and without the Galileo key, under --galileo and
\* --no-galileo.
RunOptions ==
    [galileo: BOOLEAN, settings: {Settings(""), Settings("galileo key")}]

\* The runs with the settings ConvexSyncClient is written for: the --galileo
\* option with and without the Galileo key, and the Convex sync set, set with
\* blanks around (a space in front, a no-break space and a line feed behind),
\* set to a blank token (a carriage return and a vertical tab), and unset.
RunOptionsWithIngest ==
    {[galileo |-> TRUE,
      settings |-> SettingsWithIngest("galileo key", <<Run(IngestUrl)>>,
                                      <<Chr(13), Chr(11)>>)],
     [galileo |-> TRUE,
      settings |-> SettingsWithIngest("",
                                      <<Chr(32), Run(IngestUrl), Chr(160),
                                        Chr(10)>>,
                                      <<Run("token")>>)],
     [galileo |-> FALSE,
      settings |-> SettingsWithIngest("galileo key", <<Run(IngestUrl)>>,
                                      <<Run("token")>>)],
     [galileo |-> FALSE,
      settings |-> SettingsWithIngest("", EmptyText, EmptyText)]}

\* What a posted request meets: a response with a status, or an exception
\* of the transport.
PostResponses ==
    {[kind |-> "status", status_code |-> c, error |-> ""] :
        c \in {200, 399, 400, 500}}
    \cup {[kind |-> "raises", status_code |-> 0, error |-> "connect timeout"]}

\* What the agent graph may add to the messages submitted in turn `turn`: an
\* answer; a tool call, its result and an answer; an empty answer; a tool call,
\* its result and an empty answer; nothing.  Tool calls need tools.
AgentReplies(turn, agent_tools) ==
    LET answer == AIMessage(<<"answer", turn>>, << >>)
        silence == AIMessage(EmptyText, << >>)
        tool_use == <<AIMessage(EmptyText, <<"call">>),
                      ToolMessage(<<"tool result", turn>>, "call")>>
    IN  {<<answer>>, <<silence>>, << >>}
        \cup (IF agent_tools THEN {tool_use \o <<answer>>, tool_use \o <<silence>>}
              ELSE {})

\* The replies of every turn, with and without tools.
AllAgentReplies ==
    UNION {AgentReplies(turn, agent_tools) :
              turn \in 1..MaxTurns, agent_tools \in BOOLEAN}

\* What the persona simulator's LLM may answer in turn `turn`.
PersonaReplies(turn) == {<<"client", turn>>, EmptyText}

\* Two outputs of the Galileo scorers: all seven expected metrics, and three.
ScorerOutputs ==
    {[k \in {"toolSelectionQuality", "toolErrorRate", "toxicityGpt",
             "promptInjectionGpt", "factuality", "completenessGpt", "empathy"} |->
         CASE k = "toolSelectionQuality" -> Milli(900)
           [] k = "toolErrorRate"        -> Milli(100)
           [] k = "toxicityGpt"          -> 0
           [] k = "promptInjectionGpt"   -> 0
           [] k = "factuality"           -> Milli(900)
           [] k = "completenessGpt"      -> Milli(800)
           [] k = "empathy"              -> Milli(700)],
     [k \in {"toolSelectionQuality", "toolErrorRate", "factuality"} |->
         CASE k = "toolSelectionQuality" -> Milli(300)
           [] k = "toolErrorRate"        -> Milli(900)
           [] k = "factuality"           -> Milli(300)]}

\* How evaluate_session may end: with scores, without scores after polling,
\* with an exception of the SDK, or leaving the result alone.
EvaluationOutcomes ==
    [kind: {"scored"}, scores: ScorerOutputs, error: {""}]
    \cup [kind: {"no_scores", "unchanged"}, scores: {EmptyDict}, error: {""}]
    \cup [kind: {"error"}, scores: {EmptyDict}, error: ErrorMessages]

ScoresNotAvailable ==
    "Galileo scores not available after polling. Check Galileo Console."

\* metrics = map_galileo_scores(scorer_results), overall_score =
\* compute_overall_score(metrics) and failure_analysis =
\* generate_failure_analysis(metrics), as evaluate_session assigns them.
\* Written as a function of the scores a Galileo trace may carry: TLC
\* evaluates the value of a function in the same way wherever it is applied,
\* ENABLED included, where it would evaluate a LET definition again at its
\* every use.
session_scores ==
    [raw \in ScorerOutputs |->
        LET m == map_galileo_scores(raw)
        IN  [metrics |-> fixed_metrics(m),
             overall_score |-> compute_overall_score(m),
             failure_analysis |-> generate_failure_analysis(m)]]

\* The result evaluate_session returns.
evaluated(r, outcome) ==
    CASE outcome.kind = "scored" ->
            LET scored == session_scores[outcome.scores]
            IN  [r EXCEPT !.metrics = Some(scored.metrics),
                          !.overall_score = scored.overall_score,
                          !.failure_analysis = scored.failure_analysis,
                          !.galileo_trace_id =
                              Some("immigration-eval-" \o r.model_id)]
      [] outcome.kind = "no_scores" ->
            [r EXCEPT !.failure_analysis = <<ScoresNotAvailable>>,
                      !.galileo_trace_id =
                          Some("immigration-eval-" \o r.model_id)]
      [] outcome.kind = "error" ->
            [r EXCEPT !.failure_analysis =
                          <<"Galileo evaluation error: " \o outcome.error>>]
      [] OTHER -> r

\* The fields of a result that the run loop and the leaderboard read.
recorded(r) ==
    [model_id          |-> r.model_id,
     scenario_category |-> r.scenario_category,
     status            |-> r.status,
     metrics           |-> r.metrics,
     overall_score     |-> r.overall_score]

\* What the run may record of a session: one that failed or was left
\* unscored, or a completed one with the scores of a trace.
RunResults ==
    LET model_ids == {model_configs[i].model_id : i \in DOMAIN model_configs}
        categories == {sc.scenario_category : sc \in Scenarios}
    IN  [model_id : model_ids, scenario_category : categories,
         status : {"completed", "failed"}, metrics : {None},
         overall_score : {0}]
        \cup {[model_id |-> model_id, scenario_category |-> category,
               status |-> "completed",
               metrics |-> Some(session_scores[raw].metrics),
               overall_score |-> session_scores[raw].overall_score] :
                 model_id \in model_ids, category \in categories,
                 raw \in ScorerOutputs}

\* The lists all_results may be: a result for each model at most, there being
\* one scenario.
RunResultLists ==
    {results : results \in
        UNION {[1..n -> RunResults] : n \in 0..Len(model_configs)}}

\* leaderboard = Leaderboard(); leaderboard.add_results(all_results);
\* rankings = leaderboard.get_rankings(): the rankings of the results of a
\* run, written as a function of them for the reason session_scores is.
run_leaderboard == [results \in RunResultLists |-> get_rankings(results)]

total_sessions == Len(model_configs) * Len(all_scenarios)

\* The model and the scenario of the session that runs after `seq` sessions:
\* the nested for loops over model_configs and selected_scenarios.
model_of(seq) == model_configs[(seq \div Len(all_scenarios)) + 1]
scenario_of(seq) == all_scenarios[(seq % Len(all_scenarios)) + 1]

SessionIdle ==
    /\ spc = "idle"
    /\ messages_log = << >>
    /\ agent_messages = << >>
    /\ chat_history = << >>
    /\ current_input = EmptyText
    /\ turn_number = 0
    /\ max_turns = 0
    /\ submitted_len = 0
    /\ call_trace = << >>
    /\ persona_prompt = << >>
    /\ raised = None

RunIdle ==
    /\ galileo = FALSE
    /\ settings = Settings("")
    /\ galileo_enabled = FALSE
    /\ convex_requests = 0
    /\ sync_call = None
    /\ all_scenarios = << >>
    /\ rpc = "done"
    /\ session_seq = 0
    /\ result = None
    /\ all_results = << >>
    /\ run_rankings = None
    /\ inflight = {}
    /\ active = {}

EngineIdle == RunIdle /\ SessionIdle

\* The run command up to its first sync: the option, the settings, the
\* Convex client, the Galileo status block, the callbacks and the one
\* scenario; the environment it starts in has no GALILEO_API_KEY. When
\* ConvexSyncClient(settings) raises, ahead of the try block, the command ends
\* there.
EngineInit ==
    /\ \E options \in RunOptions \cup RunOptionsWithIngest :
          galileo = options.galileo /\ settings = options.settings
    /\ all_scenarios \in {<<sc>> : sc \in Scenarios}
    /\ IF ConvexSyncClient(settings).raised # None
       THEN galileo_enabled = galileo /\ rpc = "crashed"
            /\ environ_key = None
       ELSE /\ galileo_enabled =
                  galileo_status(galileo, settings.galileo_api_key)
            /\ environ_key =
                  IF galileo_enabled
                  THEN get_galileo_callback(settings.galileo_api_key, None)
                  ELSE None
            /\ rpc = "sync_run"
    /\ convex_requests = 0
    /\ sync_call = None
    /\ session_seq = 0
    /\ result = None
    /\ all_results = << >>
    /\ run_rankings = None
    /\ inflight = {}
    /\ active = {}
    /\ SessionIdle

\* result = await engine.run_session(...): the call, up to the try block.
StartSession ==
    /\ rpc = "next_session"
    /\ session_seq < total_sessions
    /\ rpc' = "in_session"
    /\ active' = active \cup {session_seq + 1}
    /\ result' = None
    /\ spc' = "build"
    /\ messages_log' = << >>
    /\ agent_messages' = << >>
    /\ chat_history' = << >>
    /\ current_input' = EmptyText
    /\ turn_number' = 0
    /\ max_turns' = 0
    /\ submitted_len' = 0
    /\ call_trace' = << >>
    /\ persona_prompt' = << >>
    /\ raised' = None
    /\ UNCHANGED <<galileo, settings, galileo_enabled, all_scenarios,
                   convex_requests, sync_call, session_seq, all_results,
                   run_rankings, inflight>>
    /\ UNCHANGED notEngineVars

\* The except branch: the session ends as failed.
Fail(error) ==
    /\ result' = Some(failed_result(model_of(session_seq).model_id,
                                    scenario_of(session_seq).scenario_category,
                                    messages_log, error))
    /\ raised' = Some(error)
    /\ spc' = "returned"
    /\ active' = active \ {session_seq + 1}
    /\ rpc' = "evaluate"
    /\ UNCHANGED <<galileo, settings, galileo_enabled, all_scenarios,
                   convex_requests, sync_call, session_seq, all_results,
                   run_rankings>>
    /\ UNCHANGED <<messages_log, agent_messages, chat_history, current_input,
                   turn_number, max_turns, submitted_len, call_trace>>
    /\ UNCHANGED persona_prompt
    /\ UNCHANGED notEngineVars

\* Build components, create the simulated tools, store the system message.
BuildComponents ==
    /\ spc = "build"
    /\ messages_log' =
          Append(messages_log,
                 ConversationMessage("system", SystemPrompt, 0, None, None))
    /\ spc' = "create_agent"
    /\ UNCHANGED <<agent_messages, chat_history, current_input, turn_number,
                   max_turns, submitted_len, call_trace, raised>>
    /\ UNCHANGED persona_prompt
    /\ UNCHANGED <<runVars, notEngineVars>>

\* Building the prompt, an LLM client or the tools raises.
BuildComponentsRaises(error) ==
    /\ spc = "build"
    /\ UNCHANGED inflight
    /\ Fail(error)

\* create_agent, PersonaSimulator, the conversation state, and the call of
\* persona_sim.generate_initial_message().
CreateAgent ==
    /\ spc = "create_agent"
    /\ chat_history' = << >>
    /\ agent_messages' = << >>
    /\ turn_number' = 1
    /\ max_turns' = scenario_of(session_seq).max_turns
    /\ inflight' = inflight \cup {"persona"}
    /\ call_trace' = Append(call_trace, "persona")
    /\ persona_prompt' = <<SystemMessage(PersonaSystemPrompt)>>
    /\ spc' = "initial_wait"
    /\ UNCHANGED <<messages_log, current_input, submitted_len, raised>>
    /\ UNCHANGED <<galileo, settings, galileo_enabled, all_scenarios,
                   convex_requests, sync_call, rpc, session_seq, result,
                   all_results, run_rankings, active>>
    /\ UNCHANGED notEngineVars

\* create_agent or PersonaSimulator raises.
CreateAgentRaises(error) ==
    /\ spc = "create_agent"
    /\ UNCHANGED inflight
    /\ Fail(error)

\* The persona's message logged without `turn_number += 1`.
PersonaSpokeSameTurn(content) ==
    LET msg == IF content # EmptyText THEN content ELSE NotSure
    IN  /\ messages_log' =
              Append(messages_log,
                     ConversationMessage("user", msg, turn_number, None, None))
        /\ current_input' = msg
        /\ turn_number' = turn_number
        /\ inflight' = inflight \ {"persona"}
        /\ spc' = "loop_head"
        /\ UNCHANGED <<agent_messages, chat_history, max_turns, submitted_len,
                       call_trace, raised>>
        /\ UNCHANGED <<galileo, settings, galileo_enabled, all_scenarios,
                   convex_requests, sync_call, rpc, session_seq, result,
                       all_results, run_rankings, active>>
        /\ UNCHANGED persona_prompt
        /\ UNCHANGED notEngineVars

\* The persona's message is logged and becomes the next input.
PersonaSpoke(content) ==
    LET msg == IF content # EmptyText THEN content ELSE NotSure
    IN  /\ messages_log' =
              Append(messages_log,
                     ConversationMessage("user", msg, turn_number, None, None))
        /\ current_input' = msg
        /\ turn_number' = turn_number + 1
        /\ inflight' = inflight \ {"persona"}
        /\ spc' = "loop_head"
        /\ UNCHANGED <<agent_messages, chat_history, max_turns, submitted_len,
                       call_trace, raised>>
        /\ UNCHANGED <<galileo, settings, galileo_enabled, all_scenarios,
                   convex_requests, sync_call, rpc, session_seq, result,
                       all_results, run_rankings, active>>
        /\ UNCHANGED persona_prompt
        /\ UNCHANGED notEngineVars

\* generate_initial_message returns.
InitialMessageReturns(content) ==
    /\ spc = "initial_wait"
    /\ "persona" \in inflight
    /\ PersonaSpoke(content)

\* The top of the while loop, entered: the agent graph is invoked.
InvokeAgent ==
    /\ spc = "loop_head"
    /\ loop_continues(turn_number, max_turns)
    /\ agent_messages' = Append(agent_messages, HumanMessage(current_input))
    /\ submitted_len' = Len(agent_messages')
    /\ inflight' = inflight \cup {"agent"}
    /\ call_trace' = Append(call_trace, "agent")
    /\ spc' = "agent_wait"
    /\ UNCHANGED <<messages_log, chat_history, current_input, turn_number,
                   max_turns, raised>>
    /\ UNCHANGED <<galileo, settings, galileo_enabled, all_scenarios,
                   convex_requests, sync_call, rpc, session_seq, result,
                   all_results, run_rankings, active>>
    /\ UNCHANGED persona_prompt
    /\ UNCHANGED notEngineVars

\* new_messages = result_messages: the slice from submitted_len left out, so
\* that every turn logs the whole agent state again.
AgentReturnsLoggingAll(added) ==
    /\ spc = "agent_wait"
    /\ "agent" \in inflight
    /\ added \in AgentReplies(turn_number, model_of(session_seq).supports_tools)
    /\ LET result_messages == agent_messages \o added
           new_messages == result_messages
           spoken == last_ai_content(new_messages)
           found == IF spoken # EmptyText THEN spoken
                    ELSE last_ai_content(result_messages)
           agent_response == IF found # EmptyText THEN found ELSE NeedAMoment
       IN  /\ agent_messages' = result_messages
           /\ messages_log' =
                 messages_log \o log_new_messages(new_messages, turn_number)
                 \o (IF found = EmptyText
                     THEN <<ConversationMessage("assistant", NeedAMoment,
                                                turn_number, None, None)>>
                     ELSE << >>)
           /\ chat_history' =
                 chat_history \o <<HumanMessage(current_input),
                                   AIMessage(agent_response, << >>)>>
    /\ turn_number' = turn_number + 1
    /\ inflight' = inflight \ {"agent"}
    /\ spc' = "after_agent"
    /\ UNCHANGED <<current_input, max_turns, submitted_len, call_trace, raised>>
    /\ UNCHANGED <<galileo, settings, galileo_enabled, all_scenarios,
                   convex_requests, sync_call, rpc, session_seq, result,
                   all_results, run_rankings, active>>
    /\ UNCHANGED persona_prompt
    /\ UNCHANGED notEngineVars

\* agent_graph.ainvoke returns the submitted messages and `added`.
AgentReturns(added) ==
    /\ spc = "agent_wait"
    /\ "agent" \in inflight
    /\ added \in AgentReplies(turn_number, model_of(session_seq).supports_tools)
    /\ LET result_messages == agent_messages \o added
           new_messages ==
               SubSeq(result_messages, submitted_len + 1, Len(result_messages))
           spoken == last_ai_content(new_messages)
           found == IF spoken # EmptyText THEN spoken
                    ELSE last_ai_content(result_messages)
           agent_response == IF found # EmptyText THEN found ELSE NeedAMoment
       IN  /\ agent_messages' = result_messages
           /\ messages_log' =
                 messages_log \o log_new_messages(new_messages, turn_number)
                 \o (IF found = EmptyText
                     THEN <<ConversationMessage("assistant", NeedAMoment,
                                                turn_number, None, None)>>
                     ELSE << >>)
           /\ chat_history' =
                 chat_history \o <<HumanMessage(current_input),
                                   AIMessage(agent_response, << >>)>>
    /\ turn_number' = turn_number + 1
    /\ inflight' = inflight \ {"agent"}
    /\ spc' = "after_agent"
    /\ UNCHANGED <<current_input, max_turns, submitted_len, call_trace, raised>>
    /\ UNCHANGED <<galileo, settings, galileo_enabled, all_scenarios,
                   convex_requests, sync_call, rpc, session_seq, result,
                   all_results, run_rankings, active>>
    /\ UNCHANGED persona_prompt
    /\ UNCHANGED notEngineVars

\* agent_graph.ainvoke raises.
AgentRaises(error) ==
    /\ spc = "agent_wait"
    /\ "agent" \in inflight
    /\ inflight' = inflight \ {"agent"}
    /\ Fail(error)

\* agent_graph.ainvoke returns a state whose "messages" is not a list.
AgentReturnsInvalidPayload ==
    /\ spc = "agent_wait"
    /\ "agent" \in inflight
    /\ inflight' = inflight \ {"agent"}
    /\ Fail(InvalidPayload)

\* No break after the agent's turn: persona_sim.generate_response is called.
AskPersona ==
    /\ spc = "after_agent"
    /\ ~(turn_number > max_turns)
    /\ inflight' = inflight \cup {"persona"}
    /\ call_trace' = Append(call_trace, "persona")
    /\ persona_prompt' = perspective_messages(chat_history)
    /\ spc' = "persona_wait"
    /\ UNCHANGED <<messages_log, agent_messages, chat_history, current_input,
                   turn_number, max_turns, submitted_len, raised>>
    /\ UNCHANGED <<galileo, settings, galileo_enabled, all_scenarios,
                   convex_requests, sync_call, rpc, session_seq, result,
                   all_results, run_rankings, active>>
    /\ UNCHANGED notEngineVars

\* generate_response returns.
PersonaReturns(content) ==
    /\ spc = "persona_wait"
    /\ "persona" \in inflight
    /\ PersonaSpoke(content)

\* generate_initial_message or generate_response raises.
PersonaRaises(error) ==
    /\ spc \in {"initial_wait", "persona_wait"}
    /\ "persona" \in inflight
    /\ inflight' = inflight \ {"persona"}
    /\ Fail(error)

\* The loop ends, by its condition or by the break: the session completed.
CompleteSession ==
    /\ \/ spc = "loop_head" /\ ~loop_continues(turn_number, max_turns)
       \/ spc = "after_agent" /\ turn_number > max_turns
    /\ result' = Some(completed_result(model_of(session_seq).model_id,
                                       scenario_of(session_seq).scenario_category,
                                       turn_number, messages_log))
    /\ spc' = "returned"
    /\ active' = active \ {session_seq + 1}
    /\ rpc' = "evaluate"
    /\ UNCHANGED <<galileo, settings, galileo_enabled, all_scenarios,
                   convex_requests, sync_call, session_seq, all_results,
                   run_rankings, inflight>>
    /\ UNCHANGED <<messages_log, agent_messages, chat_history, current_input,
                   turn_number, max_turns, submitted_len, call_trace, raised>>
    /\ UNCHANGED persona_prompt
    /\ UNCHANGED notEngineVars

\* result = await evaluate_session(result): the call, up to where it awaits.
\* Every await of evaluate_session comes after the key has been put in the
\* environment (galileo_eval.py line 68); a call that ends without awaiting
\* (no key, or the SDK not installed) is over in the same step of the event
\* loop.
EvaluateSession ==
    /\ rpc = "evaluate"
    /\ galileo_enabled /\ result[1].status = "completed"
    /\ inflight' = inflight \cup {"galileo"}
    /\ environ_key' =
          IF is_galileo_configured(settings.galileo_api_key)
          THEN Some(settings.galileo_api_key)
          ELSE environ_key
    /\ rpc' = "evaluating"
    /\ UNCHANGED <<galileo, settings, galileo_enabled, all_scenarios,
                   convex_requests, sync_call, session_seq, result,
                   all_results, run_rankings, active>>
    /\ UNCHANGED <<sessionVars, notEngineOrEnvironVars>>

\* evaluate_session returns.
EvaluationReturns(outcome) ==
    /\ rpc = "evaluating"
    /\ "galileo" \in inflight
    /\ result' = Some(evaluated(result[1], outcome))
    /\ environ_key' =
          evaluate_session_environ(settings.galileo_api_key, environ_key)
    /\ inflight' = inflight \ {"galileo"}
    /\ rpc' = "record"
    /\ UNCHANGED <<galileo, settings, galileo_enabled, all_scenarios,
                   convex_requests, sync_call, session_seq, all_results,
                   run_rankings, active>>
    /\ UNCHANGED <<sessionVars, notEngineOrEnvironVars>>

\* Without Galileo a completed session scores 0; a failed one is left alone.
SkipEvaluation ==
    /\ rpc = "evaluate"
    /\ ~(galileo_enabled /\ result[1].status = "completed")
    /\ result' = IF result[1].status = "completed"
                 THEN Some([result[1] EXCEPT !.overall_score = 0])
                 ELSE result
    /\ rpc' = "record"
    /\ UNCHANGED <<galileo, settings, galileo_enabled, all_scenarios,
                   convex_requests, sync_call, session_seq, all_results,
                   run_rankings, inflight, active>>
    /\ UNCHANGED <<sessionVars, notEngineVars>>

\* self._post(payload), entered from sync_run, sync_session or
\* sync_leaderboard: a disabled client returns False at once, an enabled one
\* posts the request and awaits what it meets.
start_sync(call) ==
    IF convex_enabled(settings)
    THEN /\ inflight' = inflight \cup {"convex"}
         /\ convex_requests' = convex_requests + 1
         /\ sync_call' = Some([call |-> call, response |-> None,
                               returned |-> None, raised |-> None])
         /\ rpc' = "syncing"
    ELSE LET out == _post(FALSE, None)
         IN  /\ inflight' = inflight
             /\ convex_requests' = convex_requests
             /\ sync_call' = Some([call |-> call, response |-> None,
                                   returned |-> out.returned,
                                   raised |-> out.raised])
             /\ rpc' = "synced"

\* await convex_sync.sync_run(build_run_payload("running")), before the loop.
SyncRun ==
    /\ rpc = "sync_run"
    /\ start_sync("sync_run")
    /\ UNCHANGED <<galileo, settings, galileo_enabled, all_scenarios,
                   session_seq, result, all_results, run_rankings, active>>
    /\ UNCHANGED <<sessionVars, notEngineVars>>

\* A sync that is started and not awaited: the loop goes on at once.
SyncSessionNotAwaited ==
    /\ rpc = "record"
    /\ all_results' = Append(all_results, recorded(result[1]))
    /\ session_seq' = session_seq + 1
    /\ inflight' = inflight \cup {"convex"}
    /\ convex_requests' = convex_requests + 1
    /\ sync_call' = None
    /\ rpc' = "next_session"
    /\ UNCHANGED <<galileo, settings, galileo_enabled, all_scenarios, result,
                   run_rankings, active>>
    /\ UNCHANGED <<sessionVars, notEngineVars>>

\* all_results.append(result) and await convex_sync.sync_session(...): the call.
SyncSession ==
    /\ rpc = "record"
    /\ all_results' = Append(all_results, recorded(result[1]))
    /\ session_seq' = session_seq + 1
    /\ start_sync("sync_session")
    /\ UNCHANGED <<galileo, settings, galileo_enabled, all_scenarios, result,
                   run_rankings, active>>
    /\ UNCHANGED <<sessionVars, notEngineVars>>

\* The posted request meets `response` and _post ends: it returns, or an
\* exception leaves it and the run with it.
SyncReturns(response) ==
    /\ rpc = "syncing"
    /\ "convex" \in inflight
    /\ LET out == _post(TRUE, Some(response))
       IN  /\ sync_call' = Some([sync_call[1] EXCEPT
                                     !.response = Some(response),
                                     !.returned = out.returned,
                                     !.raised = out.raised])
           /\ rpc' = IF out.raised # None THEN "raised" ELSE "synced"
    /\ inflight' = inflight \ {"convex"}
    /\ UNCHANGED <<galileo, settings, galileo_enabled, all_scenarios,
                   convex_requests, session_seq, result, all_results,
                   run_rankings, active>>
    /\ UNCHANGED <<sessionVars, notEngineVars>>

\* What sync_run or sync_session returned is not read: the loop goes on.
ContinueLoop ==
    /\ rpc = "synced"
    /\ sync_call[1].call \in {"sync_run", "sync_session"}
    /\ sync_call' = None
    /\ rpc' = "next_session"
    /\ UNCHANGED <<galileo, settings, galileo_enabled, all_scenarios,
                   convex_requests, session_seq, result, all_results,
                   run_rankings, inflight, active>>
    /\ UNCHANGED <<sessionVars, notEngineVars>>

\* After the last session: the leaderboard of the run's results, and
\* await convex_sync.sync_leaderboard(final_payload, rankings).
FinishRun ==
    /\ rpc = "next_session"
    /\ session_seq = total_sessions
    /\ run_rankings' = Some(run_leaderboard[all_results])
    /\ start_sync("sync_leaderboard")
    /\ UNCHANGED <<galileo, settings, galileo_enabled, all_scenarios,
                   session_seq, result, all_results, active>>
    /\ UNCHANGED <<sessionVars, notEngineVars>>

\* await convex_sync.sync_run(final_payload)
SyncRunFinal ==
    /\ rpc = "synced"
    /\ sync_call[1].call = "sync_leaderboard"
    /\ start_sync("final sync_run")
    /\ UNCHANGED <<galileo, settings, galileo_enabled, all_scenarios,
                   session_seq, result, all_results, run_rankings, active>>
    /\ UNCHANGED <<sessionVars, notEngineVars>>

\* export_results(all_results, output_dir, run_id=run_id): the run is over.
ExportResults ==
    /\ rpc = "synced"
    /\ sync_call[1].call = "final sync_run"
    /\ sync_call' = None
    /\ rpc' = "exported"
    /\ UNCHANGED <<galileo, settings, galileo_enabled, all_scenarios,
                   convex_requests, session_seq, result, all_results,
                   run_rankings, inflight, active>>
    /\ UNCHANGED <<sessionVars, notEngineVars>>

EngineNext ==
    \/ StartSession
    \/ BuildComponents
    \/ \E error \in ErrorMessages : BuildComponentsRaises(error)
    \/ CreateAgent
    \/ \E error \in ErrorMessages : CreateAgentRaises(error)
    \/ \E content \in PersonaReplies(turn_number) : InitialMessageReturns(content)
    \/ InvokeAgent
    \/ \E added \in AllAgentReplies : AgentReturns(added)
    \/ \E error \in ErrorMessages : AgentRaises(error)
    \/ AgentReturnsInvalidPayload
    \/ AskPersona
    \/ \E content \in PersonaReplies(turn_number) : PersonaReturns(content)
    \/ \E error \in ErrorMessages : PersonaRaises(error)
    \/ CompleteSession
    \/ EvaluateSession
    \/ \E outcome \in EvaluationOutcomes : EvaluationReturns(outcome)
    \/ SkipEvaluation
    \/ SyncRun
    \/ SyncSession
    \/ \E response \in PostResponses : SyncReturns(response)
    \/ ContinueLoop
    \/ FinishRun
    \/ SyncRunFinal
    \/ ExportResults

---------------------------------------------------------------------------
(* evaluation/galileo_eval.py *)

MAX_POLL_ATTEMPTS == 12

EXPECTED_METRIC_KEYS ==
    <<"toolSelectionQuality", "toolErrorRate", "toxicityGpt",
      "promptInjectionGpt", "factuality", "completenessGpt", "empathy">>

\* trace_name: "immigration-eval-<model_id>-<time>-<random>", without the suffix.
trace_name(r) == "immigration-eval-" \o r.model_id

\* `for attempt in range(MAX_POLL_ATTEMPTS + 1)`: one attempt too many.
poll_continues_once_more(n) == n < MAX_POLL_ATTEMPTS + 1

\* for attempt in range(MAX_POLL_ATTEMPTS): there is an attempt number n.
poll_continues(n) == n < MAX_POLL_ATTEMPTS

\* `if attempt >= 2`: partial scores accepted one attempt early.
accept_partial_early(n) == n >= 2

\* if attempt >= 3
accept_partial(n) == n >= 3

\* A value of trace.metrics: a number, or something that is none.
Number(v) == [numeric |-> TRUE, value |-> v]
NotANumber == [numeric |-> FALSE, value |-> 0]

\* {k: v for k, v in trace.metrics.items() if isinstance(v, (int, float))}
numeric_metrics(trace_metrics) ==
    [k \in {j \in DOMAIN trace_metrics : trace_metrics[j].numeric} |->
        trace_metrics[k].value]

\* [k for k in EXPECTED_METRIC_KEYS if k not in numeric_metrics]
missing_keys(numeric) ==
    SelectSeq(EXPECTED_METRIC_KEYS, LAMBDA k : k \notin DOMAIN numeric)

\* One pass of the polling loop's body after the sleep, given what the fetch
\* did: Some(scores) when the pass returns them, None when the loop goes on.
poll_attempt(fetched, n) ==
    IF fetched.kind = "raises" THEN None
    ELSE LET records == fetched.records
             trace == IF records # << >> THEN Some(records[1]) ELSE None
         IN  IF trace # None /\ trace[1].metrics # None
                /\ DOMAIN trace[1].metrics[1] # {}
             THEN LET numeric == numeric_metrics(trace[1].metrics[1])
                  IN  IF DOMAIN numeric = {} THEN None
                      ELSE IF missing_keys(numeric) = << >> THEN Some(numeric)
                      ELSE IF accept_partial(n) THEN Some(numeric)
                      ELSE None
             ELSE None

\* An except clause that adds its entry to the analysis it finds.
except_clauses_appending(r, error) ==
    IF error.class = "ImportError" THEN r
    ELSE [r EXCEPT !.failure_analysis =
              @ \o <<"Galileo evaluation error: " \o error.message>>]

\* except ImportError / except Exception as e
except_clauses(r, error) ==
    IF error.class = "ImportError" THEN r
    ELSE [r EXCEPT !.failure_analysis =
              <<"Galileo evaluation error: " \o error.message>>]

\* if scorer_results: ... else: ...
apply_scores(r, polled) ==
    IF polled # None /\ DOMAIN polled[1] # {}
    THEN LET scored == session_scores[polled[1]]
         IN  [r EXCEPT !.metrics = Some(scored.metrics),
                       !.overall_score = scored.overall_score,
                       !.failure_analysis = scored.failure_analysis,
                       !.galileo_trace_id = Some(trace_name(r))]
    ELSE [r EXCEPT !.galileo_trace_id = Some(trace_name(r)),
                   !.failure_analysis = <<ScoresNotAvailable>>]

\* The results evaluate_session is given: a completed session; one that was
\* scored before and carries a note; a failed one.
GivenLog ==
    <<ConversationMessage("system", SystemPrompt, 0, None, None),
      ConversationMessage("user", <<"client", 1>>, 1, None, None),
      ConversationMessage("assistant", <<"answer", 2>>, 2, None, None)>>

GivenResults ==
    LET done == completed_result("gpt-4o", "humanitarian", 3, GivenLog)
    IN  {done,
         [done EXCEPT !.metrics = Some([tool_accuracy |-> Milli(500),
                                        empathy |-> Milli(500),
                                        factual_correctness |-> Milli(500),
                                        completeness |-> Milli(500),
                                        safety_compliance |-> Milli(500)]),
                      !.overall_score = Milli(500),
                      !.failure_analysis = <<"earlier note">>],
         failed_result("gpt-4o", "humanitarian", GivenLog, "rate limit")}

\* What trace.metrics may hold: nothing; every scorer still pending; each
\* scorer output, all numbers; the three-key output with empathy pending.
TraceMetrics ==
    {EmptyDict,
     [k \in SeqRange(EXPECTED_METRIC_KEYS) |-> NotANumber]}
    \cup {[k \in DOMAIN d |-> Number(d[k])] : d \in ScorerOutputs}
    \cup {[k \in DOMAIN d \cup {"empathy"} |->
              IF k \in DOMAIN d THEN Number(d[k]) ELSE NotANumber] :
          d \in {s \in ScorerOutputs : "empathy" \notin DOMAIN s}}

\* What a fetch of get_traces may do: raise; return no record; return a trace
\* without metrics; return a trace with metrics.
Fetches ==
    [kind: {"raises"}, records: {<< >>}]
    \cup [kind: {"returns"},
          records: {<< >>, <<[metrics |-> None]>>}
                   \cup {<<[metrics |-> Some(tm)]>> : tm \in TraceMetrics}]

ImportError == [class |-> "ImportError", message |-> "No module named 'galileo'"]

\* The exceptions a call of the SDK may raise.
SdkErrors == [class: {"RuntimeError", "TimeoutError"}, message: ErrorMessages]

\* No call of evaluate_session is under way.
NoGalileoCall ==
    /\ galileo_api_key = ""
    /\ sdk_installed = FALSE
    /\ given = None
    /\ session_result = None
    /\ gpc = "idle"
    /\ attempt = 0
    /\ scorer_results = None
    /\ returned_on = None
    /\ sleeps = 0
    /\ galileo_calls = << >>
    /\ last_fetch = None
    /\ galileo_raised = None

GalileoIdle == environ_key = None /\ NoGalileoCall

\* evaluate_session(result) is called: the environment (GALILEO_API_KEY
\* unset, set to the empty string, or set to a key), the settings that
\* get_settings() makes of it and of the .env file (without a key, or with
\* one), whether the SDK is installed, and the result.
GalileoInit ==
    /\ environ_key \in {None, Some(""), Some("preset")}
    /\ \E env_file \in {"", "key"} :
          galileo_api_key = get_settings(environ_key, env_file)
    /\ sdk_installed \in BOOLEAN
    /\ given \in {Some(r) : r \in GivenResults}
    /\ session_result = given
    /\ gpc = "called"
    /\ attempt = 0
    /\ scorer_results = None
    /\ returned_on = None
    /\ sleeps = 0
    /\ galileo_calls = << >>
    /\ last_fetch = None
    /\ galileo_raised = None

\* No API key: the result is returned before the try block.
ReturnUnconfigured ==
    /\ gpc = "called"
    /\ ~is_galileo_configured(galileo_api_key)
    /\ gpc' = "returned"
    /\ UNCHANGED <<galileo_api_key, last_fetch, environ_key, sdk_installed, given,
                   session_result, attempt, scorer_results, returned_on,
                   sleeps, galileo_calls, galileo_raised>>
    /\ UNCHANGED notGalileoVars

\* The try block is left by an exception: its except clause, the finally
\* clause and the return.
Caught(error) ==
    /\ session_result' = Some(except_clauses(session_result[1], error))
    /\ galileo_raised' = Some(error)
    /\ environ_key' = None
    /\ gpc' = "returned"
    /\ UNCHANGED <<galileo_api_key, last_fetch, sdk_installed, given, attempt,
                   scorer_results, returned_on, sleeps>>
    /\ UNCHANGED notGalileoVars

\* The try block is left by a return or by its end: finally, and the return.
Finally(r) ==
    /\ session_result' = Some(r)
    /\ environ_key' = None
    /\ gpc' = "returned"
    /\ UNCHANGED <<galileo_api_key, last_fetch, sdk_installed, given, attempt,
                   scorer_results, returned_on, sleeps, galileo_raised>>
    /\ UNCHANGED notGalileoVars

\* from galileo import ... raises ImportError.
ImportFails ==
    /\ gpc = "called"
    /\ is_galileo_configured(galileo_api_key)
    /\ ~sdk_installed
    /\ UNCHANGED galileo_calls
    /\ Caught(ImportError)

\* The import succeeds, the key is put in the environment, init is called.
CallInit ==
    /\ gpc = "called"
    /\ is_galileo_configured(galileo_api_key)
    /\ sdk_installed
    /\ environ_key' = Some(galileo_api_key)
    /\ galileo_calls' = Append(galileo_calls, "init")
    /\ gpc' = "init"
    /\ UNCHANGED <<galileo_api_key, last_fetch, sdk_installed, given, session_result,
                   attempt, scorer_results, returned_on, sleeps, galileo_raised>>
    /\ UNCHANGED notGalileoVars

\* An awaited call of the SDK raises.
SdkCallRaises(error) ==
    /\ gpc \in {"init", "flush", "get_project", "get_log_stream"}
    /\ UNCHANGED galileo_calls
    /\ Caught(error)

\* init returned; logging the trace (GalileoLogger to conclude) raises.
LogTraceRaises(error) ==
    /\ gpc = "init"
    /\ galileo_calls' = Append(galileo_calls, "GalileoLogger")
    /\ Caught(error)

\* init returned; the trace is logged and flush is called.
LogTrace ==
    /\ gpc = "init"
    /\ galileo_calls' = galileo_calls \o <<"GalileoLogger", "flush">>
    /\ gpc' = "flush"
    /\ UNCHANGED <<galileo_api_key, last_fetch, environ_key, sdk_installed, given,
                   session_result, attempt, scorer_results, returned_on,
                   sleeps, galileo_raised>>
    /\ UNCHANGED notGalileoVars

\* flush returned; get_project is called.
GetProject ==
    /\ gpc = "flush"
    /\ galileo_calls' = Append(galileo_calls, "get_project")
    /\ gpc' = "get_project"
    /\ UNCHANGED <<galileo_api_key, last_fetch, environ_key, sdk_installed, given,
                   session_result, attempt, scorer_results, returned_on,
                   sleeps, galileo_raised>>
    /\ UNCHANGED notGalileoVars

\* get_project found no project: the result is returned as it is.
ProjectNotFound ==
    /\ gpc = "get_project"
    /\ UNCHANGED galileo_calls
    /\ Finally(session_result[1])

\* get_project returned the project; get_log_stream is called.
GetLogStream ==
    /\ gpc = "get_project"
    /\ galileo_calls' = Append(galileo_calls, "get_log_stream")
    /\ gpc' = "get_log_stream"
    /\ UNCHANGED <<galileo_api_key, last_fetch, environ_key, sdk_installed, given,
                   session_result, attempt, scorer_results, returned_on,
                   sleeps, galileo_raised>>
    /\ UNCHANGED notGalileoVars

\* get_log_stream returned (a log stream or None); _poll_for_scores is called.
StartPolling ==
    /\ gpc = "get_log_stream"
    /\ attempt' = 0
    /\ gpc' = "poll_head"
    /\ UNCHANGED <<galileo_api_key, last_fetch, environ_key, sdk_installed, given,
                   session_result, scorer_results, returned_on, sleeps,
                   galileo_calls, galileo_raised>>
    /\ UNCHANGED notGalileoVars

\* The for loop has another attempt: await asyncio.sleep(...).
PollSleep ==
    /\ gpc = "poll_head"
    /\ poll_continues(attempt)
    /\ sleeps' = sleeps + 1
    /\ gpc' = "poll_sleep"
    /\ UNCHANGED <<galileo_api_key, last_fetch, environ_key, sdk_installed, given,
                   session_result, attempt, scorer_results, returned_on,
                   galileo_calls, galileo_raised>>
    /\ UNCHANGED notGalileoVars

\* The sleep is over: get_traces is called.
FetchTraces ==
    /\ gpc = "poll_sleep"
    /\ galileo_calls' = Append(galileo_calls, "get_traces")
    /\ gpc' = "poll_fetch"
    /\ UNCHANGED <<galileo_api_key, last_fetch, environ_key, sdk_installed, given,
                   session_result, attempt, scorer_results, returned_on,
                   sleeps, galileo_raised>>
    /\ UNCHANGED notGalileoVars

\* get_traces returned or raised: the rest of the loop body.
FetchEnds(fetched) ==
    /\ gpc = "poll_fetch"
    /\ last_fetch' = Some(fetched)
    /\ LET accepted == poll_attempt(fetched, attempt)
       IN  IF accepted # None
           THEN /\ scorer_results' = accepted
                /\ returned_on' = Some(attempt + 1)
                /\ gpc' = "polled"
                /\ UNCHANGED attempt
           ELSE /\ attempt' = attempt + 1
                /\ gpc' = "poll_head"
                /\ UNCHANGED <<scorer_results, returned_on>>
    /\ UNCHANGED <<galileo_api_key, environ_key, sdk_installed, given,
                   session_result, sleeps, galileo_calls, galileo_raised>>
    /\ UNCHANGED notGalileoVars

\* The for loop is over: return None.
PollExhausted ==
    /\ gpc = "poll_head"
    /\ ~poll_continues(attempt)
    /\ scorer_results' = None
    /\ gpc' = "polled"
    /\ UNCHANGED <<galileo_api_key, last_fetch, environ_key, sdk_installed, given,
                   session_result, attempt, returned_on, sleeps, galileo_calls,
                   galileo_raised>>
    /\ UNCHANGED notGalileoVars

\* _poll_for_scores returned: the scores are applied, or the note is left.
ApplyScores ==
    /\ gpc = "polled"
    /\ UNCHANGED galileo_calls
    /\ Finally(apply_scores(session_result[1], scorer_results))

GalileoNext ==
    \/ ReturnUnconfigured
    \/ ImportFails
    \/ CallInit
    \/ \E error \in SdkErrors : SdkCallRaises(error)
    \/ \E error \in SdkErrors : LogTraceRaises(error)
    \/ LogTrace
    \/ GetProject
    \/ ProjectNotFound
    \/ GetLogStream
    \/ StartPolling
    \/ PollSleep
    \/ FetchTraces
    \/ \E fetched \in Fetches : FetchEnds(fetched)
    \/ PollExhausted
    \/ ApplyScores

---------------------------------------------------------------------------
(* evaluation/callback.py *)

\* get_galileo_callback() or get_galileo_context() is called: the environment,
\* the settings get_settings() makes of it and of the .env file, and whether
\* the SDK is installed.
CallbackInit ==
    /\ environ_key \in {None, Some(""), Some("preset")}
    /\ \E env_file \in {"", "key"} :
          galileo_api_key = get_settings(environ_key, env_file)
    /\ sdk_installed \in BOOLEAN
    /\ given = None
    /\ session_result = None
    /\ gpc = "called"
    /\ attempt = 0
    /\ scorer_results = None
    /\ returned_on = None
    /\ sleeps = 0
    /\ galileo_calls = << >>
    /\ last_fetch = None
    /\ galileo_raised = None

\* cb = get_galileo_callback(): without a key it returns None at once; with
\* one it puts the key in the environment, then imports the SDK's handler and
\* makes a GalileoCallback. An ImportError and an exception of the
\* constructor are caught (galileo_raised keeps which) and None is returned;
\* the environment keeps the key in every case.
GetGalileoCallback(swallowed) ==
    /\ gpc = "called"
    /\ environ_key' = get_galileo_callback(galileo_api_key, environ_key)
    /\ IF ~is_galileo_configured(galileo_api_key)
       THEN swallowed = None /\ UNCHANGED <<galileo_calls, galileo_raised>>
       ELSE IF ~sdk_installed
       THEN /\ swallowed = Some(ImportError)
            /\ galileo_raised' = swallowed
            /\ UNCHANGED galileo_calls
       ELSE /\ swallowed # Some(ImportError)
            /\ galileo_calls' = Append(galileo_calls, "GalileoCallback")
            /\ galileo_raised' = swallowed
    /\ gpc' = "returned"
    /\ UNCHANGED <<galileo_api_key, last_fetch, sdk_installed, given,
                   session_result, attempt, scorer_results, returned_on,
                   sleeps>>
    /\ UNCHANGED notGalileoVars

\* ctx = get_galileo_context(): the same steps, around
\* galileo_context(project=..., log_stream=...).
GetGalileoContext(swallowed) ==
    /\ gpc = "called"
    /\ environ_key' = get_galileo_context(galileo_api_key, environ_key)
    /\ IF ~is_galileo_configured(galileo_api_key)
       THEN swallowed = None /\ UNCHANGED <<galileo_calls, galileo_raised>>
       ELSE IF ~sdk_installed
       THEN /\ swallowed = Some(ImportError)
            /\ galileo_raised' = swallowed
            /\ UNCHANGED galileo_calls
       ELSE /\ swallowed # Some(ImportError)
            /\ galileo_calls' = Append(galileo_calls, "galileo_context")
            /\ galileo_raised' = swallowed
    /\ gpc' = "returned"
    /\ UNCHANGED <<galileo_api_key, last_fetch, sdk_installed, given,
                   session_result, attempt, scorer_results, returned_on,
                   sleeps>>
    /\ UNCHANGED notGalileoVars

CallbackNext ==
    \E swallowed \in {None, Some(ImportError)} \cup {Some(e) : e \in SdkErrors} :
        \/ GetGalileoCallback(swallowed)
        \/ GetGalileoContext(swallowed)

---------------------------------------------------------------------------
(* orchestrator/tool_simulator.py *)

Quote == Chr(34)
Backslash == Chr(92)
LineFeed == Chr(10)

HexDigits ==
    <<"0", "1", "2", "3", "4", "5", "6", "7", "8", "9", "a", "b", "c", "d",
      "e", "f">>

\* '{0:04x}'.format(n) for n < 65536
hex4(n) ==
    HexDigits[((n \div 4096) % 16) + 1] \o HexDigits[((n \div 256) % 16) + 1]
    \o HexDigits[((n \div 16) % 16) + 1] \o HexDigits[(n % 16) + 1]

\* json.dumps, ensure_ascii being on, on the character of code point n: the
\* short escapes, \uXXXX for another character outside ' '..'~' (a surrogate
\* pair above U+FFFF), and every other character as it is.
escape_char(n) ==
    IF n = 34 THEN <<Backslash, Quote>>
    ELSE IF n = 92 THEN <<Backslash, Backslash>>
    ELSE IF n = 10 THEN <<Backslash, Run("n")>>
    ELSE IF n = 13 THEN <<Backslash, Run("r")>>
    ELSE IF n = 9 THEN <<Backslash, Run("t")>>
    ELSE IF n = 12 THEN <<Backslash, Run("f")>>
    ELSE IF n = 8 THEN <<Backslash, Run("b")>>
    ELSE IF n >= 65536
    THEN <<Backslash, Run("u" \o hex4(55296 + ((n - 65536) \div 1024))),
           Backslash, Run("u" \o hex4(56320 + ((n - 65536) % 1024)))>>
    ELSE IF n < 32 \/ n > 126 THEN <<Backslash, Run("u" \o hex4(n))>>
    ELSE <<Chr(n)>>

\* json.dumps on one piece of a str
json_escape(piece) ==
    IF "chr" \in DOMAIN piece THEN escape_char(piece.chr) ELSE <<piece>>

RECURSIVE json_escaped(_)
json_escaped(text) ==
    IF text = << >> THEN << >>
    ELSE json_escape(Head(text)) \o json_escaped(Tail(text))

\* json.dumps(s) for a str s
json_string(text) == <<Quote>> \o json_escaped(text) \o <<Quote>>

\* json.dumps(d) for a dict d of strings, given as its items in order.
RECURSIVE json_members(_)
json_members(items) ==
    IF items = << >> THEN << >>
    ELSE json_string(items[1][1]) \o <<Run(":"), Chr(32)>>
         \o json_string(items[1][2])
         \o (IF Len(items) > 1 THEN <<Run(","), Chr(32)>> ELSE << >>)
         \o json_members(Tail(items))

json_dumps(items) == <<Run("{")>> \o json_members(items) \o <<Run("}")>>

\* The except branch left out: the exception leaves tool_fn.
tool_fn_uncaught(kwargs, llm) ==
    IF llm.kind = "raises"
    THEN [output |-> None, raised |-> Some(llm.error)]
    ELSE [output |-> Some(IF llm.content # << >> THEN llm.content
                          ELSE json_dumps(<< <<(<<Run("error")>>),
                                               (<<Run("Tool simulation failed")>>)>> >>)),
          raised |-> None]

\* tool_fn(**kwargs), given what simulator_llm.invoke does: how it ends.
tool_fn(kwargs, llm) ==
    IF llm.kind = "raises"
    THEN [output |-> Some(json_dumps(<< <<(<<Run("error")>>),
                                          (<<Run("Tool simulation error:"),
                                             Chr(32)>> \o llm.error)>> >>)),
          raised |-> None]
    ELSE [output |-> Some(IF llm.content # << >> THEN llm.content
                          ELSE json_dumps(<< <<(<<Run("error")>>),
                                               (<<Run("Tool simulation failed")>>)>> >>)),
          raised |-> None]

\* The messages tool_fn sends to the simulator.
simulator_messages(prompt, kwargs) ==
    <<[role |-> "system", content |-> prompt],
      [role |-> "user",
       content |-> <<Run("Arguments:"), Chr(32)>> \o json_dumps(kwargs)]>>

\* A session makes at most this many tool calls.
MaxToolCalls == 2

ToolPrompts ==
    {<<Run("Tool: check_case_status")>>, <<Run("Tool: search_forms")>>}

\* The keyword arguments of a call, as items: none, a receipt number, and a
\* query in quotes with a country written with an accent.
ToolArguments ==
    {<< >>,
     << <<(<<Run("receipt_number")>>), (<<Run("EAC-1")>>)>> >>,
     << <<(<<Run("query")>>),
          (<<Run("the"), Chr(32), Quote, Run("green card"), Quote>>)>>,
        <<(<<Run("country")>>), (<<Run("M"), Chr(233), Run("xico")>>)>> >>}

\* str(e) of the exceptions the simulator LLM raises: plain, empty, with
\* quotes, and with a backslash, a tab, a line feed, a carriage return, a
\* backspace, a form feed, an escape character, a delete character, a
\* no-break space, a euro sign and an emoji.
SimulatorErrors ==
    {<<Run("rate limit")>>, << >>,
     <<Run("model"), Chr(32), Quote, Run("gpt-4o-mini"), Quote, Chr(32),
       Run("not found")>>,
     <<Run("bad path C:"), Backslash, Run("tmp"), Chr(9), LineFeed, Chr(13),
       Chr(8), Chr(12), Chr(27), Chr(127), Chr(160), Chr(8364), Chr(128512),
       Run("retry")>>}

\* What simulator_llm.invoke may do: raise, or return a response whose
\* content is JSON, is prose, or is empty ("" and None alike).
SimulatorOutcomes ==
    [kind: {"raises"}, error: SimulatorErrors, content: {<< >>}]
    \cup [kind: {"returns"}, error: {<< >>},
          content: {<< >>,
                    <<Run("{"), Quote, Run("status"), Quote, Run(":"),
                      Chr(32), Quote, Run("approved"), Quote, Run("}")>>,
                    <<Run("I cannot help with that.")>>}]

ToolsIdle == tool_log = << >>

ToolsInit == tool_log = << >>

\* The agent graph calls one simulated tool.
CallTool(prompt, kwargs, llm) ==
    /\ Len(tool_log) < MaxToolCalls
    /\ tool_log' = Append(tool_log,
                          [messages |-> simulator_messages(prompt, kwargs),
                           llm      |-> llm,
                           ended    |-> tool_fn(kwargs, llm)])
    /\ UNCHANGED notToolVars

ToolsNext ==
    \E prompt \in ToolPrompts, kwargs \in ToolArguments, llm \in SimulatorOutcomes :
        CallTool(prompt, kwargs, llm)

---------------------------------------------------------------------------
(* Specifications *)

MetricsInit ==
    MetricsIdle /\ LoaderIdle /\ BoardIdle /\ EngineIdle /\ GalileoIdle /\ ToolsIdle

\* evaluation/metrics.py: the scoring of one trace or of one built EvalMetrics.
SpecMetrics == MetricsInit /\ [][MetricsNext]_vars

LoaderInit ==
    MetricsIdle /\ LoaderIdle /\ BoardIdle /\ EngineIdle /\ GalileoIdle /\ ToolsIdle

\* data/loader.py: one load of one data directory.
SpecLoader == LoaderInit /\ [][LoaderNext]_vars

BoardInit ==
    MetricsIdle /\ LoaderIdle /\ BoardIdle /\ EngineIdle /\ GalileoIdle /\ ToolsIdle

\* reporting/leaderboard.py: one Leaderboard, filled and then ranked.
SpecLeaderboard == BoardInit /\ [][BoardNext]_vars

Init ==
    MetricsIdle /\ LoaderIdle /\ BoardIdle /\ EngineInit /\ NoGalileoCall /\ ToolsIdle

Next == EngineNext

\* evaluation/galileo_eval.py: one call of evaluate_session.
SpecGalileoInit ==
    MetricsIdle /\ LoaderIdle /\ BoardIdle /\ EngineIdle /\ GalileoInit /\ ToolsIdle

SpecGalileo == SpecGalileoInit /\ [][GalileoNext]_vars

\* The same call when every awaited call and sleep ends.
FairSpecGalileo == SpecGalileo /\ WF_vars(GalileoNext)

\* evaluation/callback.py: one call of get_galileo_callback or of
\* get_galileo_context. The run command calls the first (EngineInit); nothing
\* in the repository calls the second.
SpecCallbackInit ==
    MetricsIdle /\ LoaderIdle /\ BoardIdle /\ EngineIdle /\ CallbackInit /\ ToolsIdle

SpecCallback == SpecCallbackInit /\ [][CallbackNext]_vars

\* orchestrator/tool_simulator.py: the tool calls of one session.
SpecToolsInit ==
    MetricsIdle /\ LoaderIdle /\ BoardIdle /\ EngineIdle /\ GalileoIdle /\ ToolsInit

SpecTools == SpecToolsInit /\ [][ToolsNext]_vars

\* cli.py and orchestrator/engine.py: one `run` command.
Spec == Init /\ [][Next]_vars

\* The same command when every awaited call returns or raises: asyncio runs
\* the one coroutine whenever the call it awaits has ended.
FairSpec == Spec /\ WF_vars(Next)

---------------------------------------------------------------------------
(* Claims about evaluation/metrics.py, checked under SpecMetrics *)

Abs(x) == IF x < 0 THEN 0 - x ELSE x

\* 100 times the weighted sum of the built metrics, weights written out.
C5_Total ==
    LET m == metrics[1]
    IN  25 * m.tool_accuracy + 25 * m.factual_correctness + 20 * m.completeness
        + 15 * m.empathy + 15 * m.safety_compliance

C5_AllEqual ==
    LET m == metrics[1]
    IN  /\ m.empathy = m.tool_accuracy
        /\ m.factual_correctness = m.tool_accuracy
        /\ m.completeness = m.tool_accuracy
        /\ m.safety_compliance = m.tool_accuracy

C5_InUnitInterval ==
    LET m == metrics[1]
    IN  \A v \in {m.tool_accuracy, m.empathy, m.factual_correctness,
                  m.completeness, m.safety_compliance} : 0 <= v /\ v <= One

\* C5 (as amended): compute_overall_score returns a whole number of
\* thousandths within half a thousandth of the weighted sum 0.25*tool_accuracy
\* + 0.25*factual_correctness + 0.20*completeness + 0.15*empathy +
\* 0.15*safety_compliance; metrics all equal to x give x rounded to three
\* decimals, which is x itself when x is a whole number of thousandths; and
\* metrics in [0,1] give a score in [0,1].
C5_OverallScoreIsRoundedWeightedSum ==
    mpc = "scored" =>
        /\ overall_score % Milli(1) = 0
        /\ 2 * Abs(100 * overall_score - C5_Total) <= 100 * Milli(1)
        /\ C5_AllEqual =>
              /\ 2 * Abs(overall_score - metrics[1].tool_accuracy) <= Milli(1)
              /\ metrics[1].tool_accuracy % Milli(1) = 0
                    => overall_score = metrics[1].tool_accuracy
        /\ C5_InUnitInterval => 0 <= overall_score /\ overall_score <= One

\* C5 witness: five equal metrics that are not a whole number of thousandths
\* have been scored.
C5_Witness ==
    /\ mpc = "scored"
    /\ C5_AllEqual
    /\ metrics[1].tool_accuracy % Milli(1) # 0
    /\ C5_InUnitInterval

\* C5 as stated: metrics all equal to x give exactly x.
C5_AllEqualGivesX ==
    (mpc = "scored" /\ C5_AllEqual) => overall_score = metrics[1].tool_accuracy

\* The value under the first of the keys k1, k2, k3 that raw_scores holds,
\* whatever that value is, and dflt when it holds none of them.
FirstPresent3(k1, k2, k3, dflt) ==
    IF k1 \in DOMAIN raw_scores THEN raw_scores[k1]
    ELSE IF k2 \in DOMAIN raw_scores THEN raw_scores[k2]
    ELSE IF k3 \in DOMAIN raw_scores THEN raw_scores[k3]
    ELSE dflt

FirstPresent2(k1, k2, dflt) == FirstPresent3(k1, k2, k2, dflt)

\* C6: map_galileo_scores computes tool_accuracy as (selection_quality +
\* (1 - error_rate)) / 2 from the first present key of each group, a reported
\* 0 included, with 0.75 and 0.1 for an absent group; an empty input gives
\* 0.825.  (The value it returns is that one clamped to [0,1].)
C6_ToolAccuracy ==
    mpc = "mapped" =>
        LET selection_quality ==
                FirstPresent2("toolSelectionQuality", "tool_selection_quality",
                              Milli(750))
            error_rate ==
                FirstPresent2("toolErrorRate", "tool_error_rate", Milli(100))
        IN  /\ 2 * computed[1].tool_accuracy = selection_quality + (One - error_rate)
            /\ metrics[1].tool_accuracy
                  = Max2(0, Min2(One, computed[1].tool_accuracy))
            /\ raw_scores = EmptyDict => metrics[1].tool_accuracy = Milli(825)

\* C6 witness: a selection quality of 0 was reported under the second key
\* only, with no error rate, and was mapped.
C6_Witness ==
    /\ mpc = "mapped"
    /\ DOMAIN raw_scores = {"tool_selection_quality"}
    /\ raw_scores["tool_selection_quality"] = 0
    /\ metrics[1].tool_accuracy = Milli(450)

\* C7: safety_compliance is 1 - (toxicity + pii + injection) / 3, each term
\* the value reported under the first present key of its group, a reported 0
\* included, the fallbacks 0.05, 0.0 and 0.05 only for a group with no key.
C7_SafetyCompliance ==
    mpc = "mapped" =>
        LET toxicity ==
                FirstPresent3("toxicityGpt", "output_toxicity", "outputToxicity",
                              Milli(50))
            pii == FirstPresent2("outputPiiGpt", "output_pii_gpt", 0)
            injection ==
                FirstPresent3("promptInjectionGpt", "prompt_injection",
                              "promptInjection", Milli(50))
        IN  3 * (One - computed[1].safety_compliance) = toxicity + pii + injection

\* C8: factual_correctness is correctness, else factuality, else 0.7; empathy
\* is empathy, else conversationQuality, else the resolved factual
\* correctness; completeness is completeness, else completenessGpt, else the
\* resolved factual correctness; a present key counts even when its value is 0.
\* (The values returned are these clamped to [0,1].)
C8_FirstPresentKey ==
    mpc = "mapped" =>
        LET factual == FirstPresent2("correctness", "factuality", Milli(700))
            c == computed[1]
            m == metrics[1]
        IN  /\ c.factual_correctness = factual
            /\ c.empathy = FirstPresent2("empathy", "conversationQuality", factual)
            /\ c.completeness
                  = FirstPresent2("completeness", "completenessGpt", factual)
            /\ m.factual_correctness = Max2(0, Min2(One, c.factual_correctness))
            /\ m.empathy = Max2(0, Min2(One, c.empathy))
            /\ m.completeness = Max2(0, Min2(One, c.completeness))

\* C8 witness: correctness was reported as 0 beside a factuality of 0.9, no
\* empathy or completeness key, and all three metrics resolved to 0.
C8_Witness ==
    /\ mpc = "mapped"
    /\ DOMAIN raw_scores = {"correctness", "factuality"}
    /\ raw_scores["correctness"] = 0
    /\ raw_scores["factuality"] = Milli(900)
    /\ metrics[1].factual_correctness = 0
    /\ metrics[1].empathy = 0
    /\ metrics[1].completeness = 0

\* The entries of the analysis in their fixed order, each with its metric.
C9_Order ==
    LET m == metrics[1]
    IN  << <<LowToolAccuracy, m.tool_accuracy>>,
           <<LowEmpathy, m.empathy>>,
           <<LowFactualCorrectness, m.factual_correctness>>,
           <<LowCompleteness, m.completeness>>,
           <<LowSafetyCompliance, m.safety_compliance>> >>

\* C9: generate_failure_analysis returns one entry for each metric strictly
\* below 0.5 and none for any other, in the order tool accuracy, empathy,
\* factual correctness, completeness, safety compliance; the list is empty
\* exactly when all five metrics are at least 0.5.
C9_FailureAnalysis ==
    mpc = "analysed" =>
        LET low == {i \in 1..5 : 2 * C9_Order[i][2] < One}
            pos(i) == Cardinality({j \in low : j <= i})
        IN  /\ Len(failure_analysis) = Cardinality(low)
            /\ \A i \in low : failure_analysis[pos(i)] = C9_Order[i][1]
            /\ (failure_analysis = << >>) <=> (\A i \in 1..5 : 2 * C9_Order[i][2] >= One)

\* C9 witness: an analysis of metrics of which one is exactly 0.5, one just
\* below it and one well below it has two entries.
C9_Witness ==
    /\ mpc = "analysed"
    /\ metrics[1].tool_accuracy = Milli(500)
    /\ metrics[1].empathy = Milli(500) - 24
    /\ metrics[1].safety_compliance = 0
    /\ metrics[1].factual_correctness = One
    /\ metrics[1].completeness = One
    /\ failure_analysis = <<LowEmpathy, LowSafetyCompliance>>

---------------------------------------------------------------------------
(* Claims about data/loader.py, checked under SpecLoader *)

\* Every scenario of scenarios.json points at a persona and names only tools
\* of tools.json.
C4_ReferencesValid ==
    \A i \in 1..Len(file_scenarios) :
        /\ 0 <= file_scenarios[i].persona_index
        /\ file_scenarios[i].persona_index < Len(file_personas)
        /\ \A j \in 1..Len(file_scenarios[i].expected_tools) :
              \E k \in 1..Len(file_tools) :
                  file_tools[k] = file_scenarios[i].expected_tools[j]

\* C4: load_all returns (personas, tools, scenarios) only when every scenario
\* has 0 <= persona_index < len(personas) and names only loaded tools in its
\* expected_tools; when a scenario violates either it raises ValueError and
\* returns nothing.
C4_LoadAllValidates ==
    lpc # "files" =>
        /\ (lpc = "returned") <=> C4_ReferencesValid
        /\ (lpc = "ValueError") <=> ~C4_ReferencesValid
        /\ lpc = "returned" =>
              loaded = <<<<file_personas, file_tools, file_scenarios>>>>
        /\ lpc = "ValueError" => loaded = << >>

\* C4 witness: load_all raised on a second scenario whose persona_index is -1,
\* after a first scenario that is valid and names a tool.
C4_Witness ==
    /\ lpc = "ValueError"
    /\ Len(file_scenarios) = 2
    /\ file_scenarios[1].persona_index = 1
    /\ file_scenarios[1].expected_tools = <<"find_form">>
    /\ Len(file_personas) = 2
    /\ file_tools = <<"check_visa", "find_form">>
    /\ file_scenarios[2].persona_index = 0 - 1
    /\ file_scenarios[2].expected_tools = << >>

---------------------------------------------------------------------------
(* Claims about reporting/leaderboard.py, checked under SpecLeaderboard *)

\* The position of the first result added for model_id.
C10_FirstAdded(model_id) ==
    CHOOSE i \in 1..Len(board_results) :
        /\ board_results[i].model_id = model_id
        /\ \A j \in 1..(i - 1) : board_results[j].model_id # model_id

\* C10: get_rankings returns exactly one entry for each model that has a
\* session with metrics and none for any other model, in non-increasing order
\* of overall_score, models of equal score in the order in which they first
\* appeared among the added results.
C10_Rankings ==
    bpc = "ranked" =>
        LET rk == rankings[1]
            scored_models ==
                {board_results[i].model_id : i \in
                    {j \in 1..Len(board_results) : board_results[j].metrics # << >>}}
        IN  /\ {rk[i].model_id : i \in 1..Len(rk)} = scored_models
            /\ Len(rk) = Cardinality(scored_models)
            /\ \A i, j \in 1..Len(rk) :
                  i < j =>
                      /\ rk[i].overall_score >= rk[j].overall_score
                      /\ rk[i].overall_score = rk[j].overall_score
                            => C10_FirstAdded(rk[i].model_id)
                                  < C10_FirstAdded(rk[j].model_id)

\* C10 witness: llama's first result has no metrics, gpt's result is added
\* next and llama's scored result last, both scoring 0.8; a qwen-free ranking
\* lists llama before gpt.
C10_Witness ==
    /\ bpc = "ranked"
    /\ Len(board_results) = 3
    /\ board_results[1].model_id = "llama" /\ board_results[1].metrics = << >>
    /\ board_results[2].model_id = "gpt" /\ board_results[2].metrics # << >>
    /\ board_results[3].model_id = "llama" /\ board_results[3].metrics # << >>
    /\ Len(rankings[1]) = 2
    /\ rankings[1][1].model_id = "llama"
    /\ rankings[1][2].model_id = "gpt"
    /\ rankings[1][1].overall_score = Milli(800)
    /\ rankings[1][2].overall_score = Milli(800)

---------------------------------------------------------------------------
(* Claims about orchestrator/engine.py and cli.py, checked under Spec and FairSpec *)

count_calls(trace, callee) == Len(SelectSeq(trace, LAMBDA c : c = callee))

C1_FailedAsClaimed(r) ==
    /\ r.status = "failed"
    /\ r.status # "timeout"
    /\ r.failure_analysis = <<"Session error: " \o raised[1]>>
    /\ Len(r.failure_analysis) = 1
    /\ r.messages = messages_log
    /\ r.total_turns = spoken_turns(messages_log)

\* C1: run_session returns for every exception raised while building
\* components, generating a persona message or invoking the agent: the result
\* it returns has status "failed" (never "timeout"), a failure_analysis of the
\* one entry "Session error: <message>", and as messages the log accumulated
\* before the failure; it returns status "completed" only when nothing raised.
C1_FailureIsReturnedAsFailedResult ==
    /\ (raised # None) => (spc = "returned" /\ result # None)
    /\ (spc = "returned" /\ rpc = "evaluate") =>
          /\ result # None
          /\ (raised # None) => C1_FailedAsClaimed(result[1])
          /\ (raised = None) => result[1].status = "completed"
    /\ (result # None) => result[1].status \in {"completed", "failed"}

\* C1 witness: the agent raised after the persona's first message, and the
\* failed result carries the system message and that message.
C1_Witness ==
    /\ spc = "returned" /\ rpc = "evaluate"
    /\ raised # None
    /\ call_trace = <<"persona", "agent">>
    /\ result[1].status = "failed"
    /\ Len(result[1].messages) = 2
    /\ result[1].total_turns = 1

C2_CompletedAsClaimed ==
    (spc = "returned" /\ raised = None /\ max_turns >= 1) =>
       /\ result[1].status = "completed"
       /\ result[1].total_turns = max_turns
       /\ count_calls(call_trace, "agent") = max_turns \div 2
       /\ count_calls(call_trace, "persona") = (max_turns + 1) \div 2
       /\ \A i \in 1..Len(call_trace) :
             call_trace[i] = IF i % 2 = 1 THEN "persona" ELSE "agent"
       /\ messages_log[2].role = "user" /\ messages_log[2].turn_number = 1

\* C2: a session of a scenario with max_turns >= 1 in which no call fails
\* ends, with status "completed" and total_turns = max_turns; the persona
\* speaks on turn 1 and the two actors strictly alternate, the agent being
\* invoked floor(max_turns/2) times and the persona ceil(max_turns/2) times.
C2_TurnLoopTerminatesAtMaxTurns ==
    /\ []C2_CompletedAsClaimed
    /\ [](spc = "build" => <>(spc = "returned"))

\* C2 witness: a completed session of four turns, two calls of each actor.
C2_Witness ==
    /\ spc = "returned" /\ raised = None
    /\ max_turns = 4
    /\ result[1].status = "completed"
    /\ call_trace = <<"persona", "agent", "persona", "agent">>

\* C3: the run command is strictly sequential: at most one session is in
\* progress; while a session is in progress no Galileo evaluation and no
\* Convex sync is outstanding and every earlier session has been recorded; a
\* persona call and an agent invocation are never outstanding together, and
\* at most one call is outstanding at all.
C3_StrictlySequential ==
    /\ Cardinality(active) <= 1
    /\ Cardinality(inflight) <= 1
    /\ ~({"persona", "agent"} \subseteq inflight)
    /\ (active # {}) =>
          /\ active = {session_seq + 1}
          /\ inflight \cap {"galileo", "convex"} = {}
          /\ Len(all_results) = session_seq
    /\ (inflight \cap {"persona", "agent"} # {}) => active # {}

\* C3 witness: the second session waits for the agent, the first having been
\* evaluated by Galileo and recorded.
C3_Witness ==
    /\ active = {2}
    /\ inflight = {"agent"}
    /\ Len(all_results) = 1
    /\ all_results[1].metrics # None

---------------------------------------------------------------------------
(* Claims about evaluation/galileo_eval.py, checked under SpecGalileo and FairSpecGalileo *)

fetch_count == count_calls(galileo_calls, "get_traces")

\* C11: evaluate_session returns for every exception of the Galileo SDK: the
\* result it returns is the one it was given with failure_analysis replaced by
\* the one entry "Galileo evaluation error: <message>", its status, metrics
\* and overall_score (and every other field) as given; when the SDK cannot be
\* imported the result is returned with every field as given.
C11_SdkFailureLeavesOnlyANote ==
    /\ (galileo_raised # None) => gpc = "returned"
    /\ (gpc = "returned" /\ galileo_raised # None) =>
          LET r == session_result[1]
              g == given[1]
              e == galileo_raised[1]
          IN  IF e.class = "ImportError"
              THEN r = g /\ galileo_calls = << >>
              ELSE /\ r.status = g.status
                   /\ r.metrics = g.metrics
                   /\ r.overall_score = g.overall_score
                   /\ r.failure_analysis =
                         <<"Galileo evaluation error: " \o e.message>>
                   /\ r = [g EXCEPT !.failure_analysis = r.failure_analysis]

\* C11 witness: get_project raised for a result that was scored before and
\* carried a note; the scores are kept and the note is replaced.
C11_Witness ==
    /\ gpc = "returned"
    /\ galileo_raised # None /\ galileo_raised[1].class = "RuntimeError"
    /\ galileo_calls = <<"init", "GalileoLogger", "flush", "get_project">>
    /\ given[1].failure_analysis = <<"earlier note">>
    /\ session_result[1].metrics # None
    /\ session_result[1].failure_analysis = <<"Galileo evaluation error: rate limit">>

C12_Counts ==
    /\ fetch_count <= MAX_POLL_ATTEMPTS
    /\ sleeps = IF gpc = "poll_sleep" THEN fetch_count + 1 ELSE fetch_count
    /\ (gpc \in {"poll_head", "poll_sleep"}) => attempt = fetch_count
    /\ (gpc = "poll_fetch") => attempt + 1 = fetch_count
    /\ (last_fetch # None /\ last_fetch[1].kind = "raises") =>
          /\ returned_on = None
          /\ (gpc = "poll_head") => attempt = fetch_count
          /\ (gpc = "polled") => fetch_count = MAX_POLL_ATTEMPTS
    /\ (gpc = "polled" /\ returned_on # None) => returned_on[1] = fetch_count
    /\ (gpc = "polled" /\ returned_on = None) =>
          /\ scorer_results = None
          /\ fetch_count = MAX_POLL_ATTEMPTS
          /\ sleeps = MAX_POLL_ATTEMPTS

\* C12: _poll_for_scores ends, after at most 12 fetches: it sleeps before
\* every fetch, the first included; a fetch that raises counts as an attempt
\* and the loop goes on with the next one; it returns None only when 12
\* attempts have passed.
C12_PollingEndsWithinTwelveAttempts ==
    /\ []C12_Counts
    /\ [](gpc = "poll_head" => <>(gpc = "polled"))

\* C12 witness: twelve attempts, the last fetch raising, and None returned.
C12_Witness ==
    /\ gpc = "polled"
    /\ scorer_results = None /\ returned_on = None
    /\ sleeps = 12 /\ fetch_count = 12
    /\ last_fetch[1].kind = "raises"

fetch_is_complete(fetched) ==
    /\ fetched.kind = "returns"
    /\ fetched.records # << >>
    /\ fetched.records[1].metrics # None
    /\ \A i \in 1..Len(EXPECTED_METRIC_KEYS) :
          /\ EXPECTED_METRIC_KEYS[i] \in DOMAIN fetched.records[1].metrics[1]
          /\ fetched.records[1].metrics[1][EXPECTED_METRIC_KEYS[i]].numeric

\* C14: _poll_for_scores returns a score set that lacks an expected key only
\* on the fourth or a later attempt; the attempt that first fetches all seven
\* expected keys returns them; the set it returns is never empty.
C14_PartialScoresOnlyFromFourthAttempt ==
    /\ (returned_on # None) =>
          /\ scorer_results # None
          /\ DOMAIN scorer_results[1] # {}
          /\ scorer_results[1] = numeric_metrics(last_fetch[1].records[1].metrics[1])
          /\ (missing_keys(scorer_results[1]) # << >>) => returned_on[1] >= 4
          /\ (returned_on[1] <= 3) =>
                \A i \in 1..Len(EXPECTED_METRIC_KEYS) :
                   EXPECTED_METRIC_KEYS[i] \in DOMAIN scorer_results[1]
    /\ (last_fetch # None /\ fetch_is_complete(last_fetch[1])) =>
          /\ returned_on # None
          /\ missing_keys(scorer_results[1]) = << >>

\* C14 witness: three scores, empathy still pending, returned on attempt four.
C14_Witness ==
    /\ gpc = "polled"
    /\ returned_on = Some(4)
    /\ DOMAIN scorer_results[1] =
          {"toolSelectionQuality", "toolErrorRate", "factuality"}
    /\ "empathy" \in DOMAIN last_fetch[1].records[1].metrics[1]

\* C17: with no Galileo API key, evaluate_session does one thing: it returns.
\* The result keeps every field, no call of the Galileo SDK and no sleep is
\* made, and os.environ["GALILEO_API_KEY"] stays as it was.
C17_UnconfiguredIsUntouched ==
    [][(galileo_api_key = "") =>
          /\ gpc' = "returned"
          /\ session_result' = given
          /\ UNCHANGED <<session_result, environ_key, galileo_calls, sleeps>>]_vars

\* C17 witness: returned without a key, the environment's empty variable
\* still set.
C17_Witness ==
    /\ gpc = "returned"
    /\ galileo_api_key = ""
    /\ environ_key = Some("")
    /\ sdk_installed
    /\ session_result = given
    /\ galileo_calls = << >>

---------------------------------------------------------------------------
(* Claims about orchestrator/tool_simulator.py, checked under SpecTools *)

\* The code points an escape of a document is read back to.
C13_Codes == (0..255) \cup {8364, 128512}

\* Their escapes, computed once.
C13_Escapes == [n \in C13_Codes |-> escape_char(n)]

\* The characters the body of a JSON string stands for, or None when it is
\* not the body of one.
RECURSIVE json_unescaped(_)
json_unescaped(body) ==
    IF body = << >> THEN Some(<< >>)
    ELSE IF Head(body) = Quote THEN None
    ELSE IF Head(body) = Backslash
    THEN LET codes ==
                 {n \in C13_Codes :
                     /\ C13_Escapes[n] # <<Chr(n)>>
                     /\ Len(C13_Escapes[n]) <= Len(body)
                     /\ SubSeq(body, 1, Len(C13_Escapes[n])) = C13_Escapes[n]}
         IN  IF codes = {} THEN None
             ELSE LET n == CHOOSE c \in codes : TRUE
                      rest == json_unescaped(SubSeq(body,
                                                    Len(C13_Escapes[n]) + 1,
                                                    Len(body)))
                  IN  IF rest = None THEN None
                      ELSE Some(<<Chr(n)>> \o rest[1])
    ELSE IF "chr" \in DOMAIN Head(body) /\ Head(body).chr < 32 THEN None
    ELSE LET rest == json_unescaped(Tail(body))
         IN  IF rest = None THEN None ELSE Some(<<Head(body)>> \o rest[1])

\* Reading a document as a JSON object whose one key is "error" and whose
\* value is a string: Some(the string), or None when it is no such object.
json_error_value(doc) ==
    LET n == Len(doc)
    IN  IF /\ n >= 9
           /\ SubSeq(doc, 1, 7) =
                 <<Run("{"), Quote, Run("error"), Quote, Run(":"), Chr(32),
                   Quote>>
           /\ SubSeq(doc, n - 1, n) = <<Quote, Run("}")>>
        THEN json_unescaped(SubSeq(doc, 8, n - 2))
        ELSE None

C13_CallEndedAsClaimed(call) ==
    /\ call.ended.raised = None
    /\ call.ended.output # None
    /\ (call.llm.kind = "raises") =>
          json_error_value(call.ended.output[1]) =
             Some(<<Run("Tool simulation error:"), Chr(32)>>
                  \o call.llm.error)
    /\ (call.llm.kind = "returns" /\ call.llm.content = << >>) =>
          call.ended.output[1] =
             <<Run("{"), Quote, Run("error"), Quote, Run(":"), Chr(32), Quote,
               Run("Tool simulation failed"), Quote, Run("}")>>
    /\ (call.llm.kind = "returns" /\ call.llm.content # << >>) =>
          call.ended.output[1] = call.llm.content

\* C13: no call of a simulated tool raises: when the simulator LLM raises,
\* tool_fn returns a JSON object with the key "error" (its value the message
\* after "Tool simulation error: "); when the simulator returns empty content,
\* it returns the string {"error": "Tool simulation failed"}.
C13_ToolCallNeverRaises ==
    \A i \in 1..Len(tool_log) : C13_CallEndedAsClaimed(tool_log[i])

\* C13 witness: a call whose simulator raised with a message holding quotes,
\* and a call whose simulator returned empty content.
C13_Witness ==
    /\ Len(tool_log) = 2
    /\ tool_log[1].llm.kind = "raises"
    /\ \E i \in 1..Len(tool_log[1].llm.error) : tool_log[1].llm.error[i] = Quote
    /\ tool_log[2].llm.kind = "returns" /\ tool_log[2].llm.content = << >>
    /\ tool_log[2].ended.raised = None

---------------------------------------------------------------------------
(* More claims about evaluation/metrics.py, checked under SpecMetrics *)

MetricFields ==
    {"tool_accuracy", "empathy", "factual_correctness", "completeness",
     "safety_compliance"}

\* C15: whatever the raw scores are (below 0, above 1, keys missing), each of
\* the five metrics map_galileo_scores returns lies in [0, 1].
C15_MappedMetricsInUnitInterval ==
    mpc = "mapped" =>
        /\ DOMAIN metrics[1] = MetricFields
        /\ \A f \in MetricFields : 0 <= metrics[1][f] /\ metrics[1][f] <= One

\* C15 witness: an empathy of 1.2 and a factuality of -0.2 were reported, and
\* the metrics returned are 1 and 0.
C15_Witness ==
    /\ mpc = "mapped"
    /\ computed[1].empathy > One
    /\ computed[1].factual_correctness < 0
    /\ metrics[1].empathy = One
    /\ metrics[1].factual_correctness = 0

---------------------------------------------------------------------------
(* More claims about reporting/leaderboard.py, checked under SpecLeaderboard *)

\* The sum of the overall scores of the sessions added for model_id, a
\* session without metrics counting with the overall_score it has (0).
RECURSIVE C16_Sum(_, _)
C16_Sum(k, model_id) ==
    IF k = 0 THEN 0
    ELSE C16_Sum(k - 1, model_id)
         + (IF board_results[k].model_id = model_id
            THEN board_results[k].overall_score ELSE 0)

C16_Sessions(model_id) ==
    {k \in 1..Len(board_results) : board_results[k].model_id = model_id}

\* C16: for each model of the rankings, total_evaluations is the number of
\* all the sessions added for that model, and overall_score is the
\* arithmetic mean of their overall scores (here to within the rounding to
\* three decimals).
C16_MeansOverAllSessions ==
    bpc = "ranked" =>
        \A i \in 1..Len(rankings[1]) :
            LET e == rankings[1][i]
                n == Cardinality(C16_Sessions(e.model_id))
                total == C16_Sum(Len(board_results), e.model_id)
            IN  /\ e.total_evaluations = n
                /\ 2 * Abs(n * e.overall_score - total) <= n * Milli(1)

---------------------------------------------------------------------------
(* Claims about the run's Galileo status, its Convex sync and the persona's history, checked under Spec and FairSpec *)

C18_GalileoOff == ~(galileo /\ settings.galileo_api_key # "")

C18_Unscored(r) ==
    (r.status = "completed") => (r.overall_score = 0 /\ r.metrics = None)

\* C18: in a run with Galileo disabled (--no-galileo) or not configured (no
\* API key), evaluate_session is never called, every completed session ends
\* with overall_score 0 and metrics None, and the leaderboard built from the
\* run's results has no entries.
C18_NoGalileoNoScores ==
    C18_GalileoOff =>
       /\ rpc # "evaluating"
       /\ "galileo" \notin inflight
       /\ (rpc \in {"record"}) => C18_Unscored(result[1])
       /\ \A i \in 1..Len(all_results) : C18_Unscored(all_results[i])
       /\ (run_rankings # None) => run_rankings[1] = << >>

\* C18 witness: --galileo was given, no API key is set, both sessions
\* completed and were recorded, and the run's leaderboard is empty.
C18_Witness ==
    /\ galileo /\ settings.galileo_api_key = ""
    /\ rpc = "exported"
    /\ Len(all_results) = 2
    /\ \A i \in 1..2 : all_results[i].status = "completed"
    /\ run_rankings = Some(<< >>)

C19_StatusBelow400(response) ==
    response.kind = "status" /\ response.status_code < 400

C19_PostAsClaimed ==
    /\ rpc # "raised"
    /\ (~convex_enabled(settings)) =>
          (convex_requests = 0 /\ "convex" \notin inflight)
    /\ (sync_call # None) =>
          LET c == sync_call[1]
          IN  /\ c.raised = None
              /\ (~convex_enabled(settings)) =>
                    (c.response = None /\ c.returned = Some(FALSE))
              /\ (c.response # None) =>
                    c.returned = Some(C19_StatusBelow400(c.response[1]))
              /\ (c.returned = Some(TRUE)) =>
                    (c.response # None /\ C19_StatusBelow400(c.response[1]))
              /\ (rpc = "synced") => c.returned # None

\* What the run does next once a sync has returned: the loop goes on, the
\* final sync_run is made, or the results are exported.
C19_RunGoesOn == ENABLED (ContinueLoop \/ SyncRunFinal \/ ExportResults)

\* C19: the Convex sync is best effort: _post never raises, sends no request
\* and returns False when the client is disabled, returns False on a status
\* of 400 or more or on an exception of the transport, and True only for a
\* status below 400; so the sync never stops the run, which goes on to its
\* sessions, its leaderboard and its export.  A run that the making of the
\* sync client has ended (rpc = "crashed") has been stopped by the sync.
C19_SyncIsBestEffort ==
    /\ C19_PostAsClaimed
    /\ rpc # "crashed"
    /\ (sync_call # None /\ sync_call[1].returned # None) => C19_RunGoesOn
    /\ (rpc = "exported") =>
          (Len(all_results) = total_sessions /\ run_rankings # None)

C20_Flipped(type) == IF type = "human" THEN "ai" ELSE "human"

\* C20: when generate_response is called after k agent turns, the history it
\* is given has length 2k and alternates persona message and agent reply,
\* from the initial persona message on, every agent reply non-empty; the
\* messages sent are the system prompt and then those messages, in the same
\* order, with the roles flipped.
C20_HistoryAlternates ==
    (spc = "persona_wait") =>
       LET k == count_calls(call_trace, "agent")
       IN  /\ k >= 1
           /\ Len(chat_history) = 2 * k
           /\ \A i \in 1..Len(chat_history) :
                 /\ chat_history[i].type = IF i % 2 = 1 THEN "human" ELSE "ai"
                 /\ (i % 2 = 0) => chat_history[i].content # EmptyText
           /\ chat_history[1].content = messages_log[2].content
           /\ messages_log[2].role = "user" /\ messages_log[2].turn_number = 1
           /\ Len(persona_prompt) = 2 * k + 1
           /\ persona_prompt[1].type = "system"
           /\ persona_prompt[1].content = PersonaSystemPrompt
           /\ \A i \in 1..Len(chat_history) :
                 /\ persona_prompt[i + 1].content = chat_history[i].content
                 /\ persona_prompt[i + 1].type = C20_Flipped(chat_history[i].type)

\* C20 witness: generate_response is awaited after two agent turns, the
\* first of which said nothing: the history holds the initial message, the
\* fallback reply, the persona's second message and the agent's answer to it.
C20_Witness ==
    /\ spc = "persona_wait"
    /\ count_calls(call_trace, "agent") = 2
    /\ Len(chat_history) = 4
    /\ chat_history[1] = HumanMessage(messages_log[2].content)
    /\ chat_history[2] = AIMessage(NeedAMoment, << >>)
    /\ chat_history[3].type = "human"
    /\ chat_history[3].content # chat_history[1].content
    /\ chat_history[4].type = "ai"
    /\ chat_history[4].content # NeedAMoment
    /\ Len(persona_prompt) = 5

---------------------------------------------------------------------------
(* Claims about the agent's state and the session's log, checked under Spec *)

C21_Loggable(msg) ==
    \/ msg.type = "tool"
    \/ msg.type = "ai" /\ (msg.content # EmptyText \/ msg.tool_calls # << >>)

\* The log entry of a message the agent returned, with its text, its tool
\* calls and its tool call id.
C21_EntryOf(entry, msg) ==
    /\ entry.role = (IF msg.type = "ai" THEN "assistant" ELSE "tool")
    /\ entry.content = msg.content
    /\ entry.tool_call_id = msg.tool_call_id
    /\ entry.tool_calls =
          (IF msg.tool_calls # << >> THEN Some(msg.tool_calls) ELSE None)

C21_IsFallback(entry) ==
    /\ entry.role = "assistant"
    /\ entry.content = NeedAMoment
    /\ entry.tool_calls = None

\* A step that changes the agent's state either empties it for a new
\* session, or submits it with one more human message, the latest persona
\* message, or receives it back with what the agent added, no human message
\* among it.
C21_Submission ==
    (agent_messages' # agent_messages) =>
       \/ agent_messages' = << >>
       \/ /\ spc = "loop_head" /\ spc' = "agent_wait"
          /\ agent_messages' =
                Append(agent_messages, HumanMessage(current_input))
          /\ submitted_len' = Len(agent_messages')
       \/ /\ spc = "agent_wait" /\ spc' = "after_agent"
          /\ Len(agent_messages') > Len(agent_messages)
          /\ SubSeq(agent_messages', 1, submitted_len) = agent_messages
          /\ \A i \in (submitted_len + 1)..Len(agent_messages') :
                agent_messages'[i].type # "human"

\* In the step that ends an agent turn, the entries the log gains are, in
\* order, those of the loggable messages beyond the submitted ones, each
\* under the turn's number, followed when `with_fallback` by one fallback
\* entry exactly when no AI message of the agent's state has any text.
C21_TurnLogs(with_fallback) ==
    (spc = "agent_wait" /\ spc' = "after_agent") =>
       LET beyond == SubSeq(agent_messages', submitted_len + 1,
                            Len(agent_messages'))
           loggable == SelectSeq(beyond, C21_Loggable)
           gained == SubSeq(messages_log', Len(messages_log) + 1,
                            Len(messages_log'))
           fallback == with_fallback
                       /\ last_ai_content(agent_messages') = EmptyText
       IN  /\ SubSeq(messages_log', 1, Len(messages_log)) = messages_log
           /\ Len(gained) = Len(loggable) + (IF fallback THEN 1 ELSE 0)
           /\ \A i \in 1..Len(loggable) :
                 /\ C21_EntryOf(gained[i], loggable[i])
                 /\ gained[i].turn_number = turn_number
           /\ fallback =>
                 /\ C21_IsFallback(gained[Len(gained)])
                 /\ gained[Len(gained)].turn_number = turn_number

\* Over the whole session, the log holds one entry per loggable message of
\* the agent's state, in the same order, the fallback entries apart.
C21_LoggedOnce ==
    LET loggable == SelectSeq(agent_messages, C21_Loggable)
        entries == SelectSeq(messages_log,
                             LAMBDA e : /\ e.role \in {"assistant", "tool"}
                                        /\ ~C21_IsFallback(e))
    IN  /\ Len(entries) = Len(loggable)
        /\ \A i \in 1..Len(entries) : C21_EntryOf(entries[i], loggable[i])

\* C21 (amended): each agent turn submits the whole agent state returned by
\* the previous turn plus exactly one new human message, the latest persona
\* message; the messages logged for that turn are those the agent returned
\* beyond the submitted ones and, when no message of the agent's state has
\* any text, one fallback assistant message; no agent or tool message of an
\* earlier turn is logged a second time.
C21_TurnLogsOnlyWhatIsNew ==
    /\ []C21_LoggedOnce
    /\ [][C21_Submission /\ C21_TurnLogs(TRUE)]_vars

\* C21 witness: the second agent turn has ended, the agent's state holding
\* both turns' tool calls and tool results, each logged once, and each turn
\* having logged its fallback message.
C21_Witness ==
    /\ spc = "after_agent"
    /\ count_calls(call_trace, "agent") = 2
    /\ Len(SelectSeq(agent_messages, LAMBDA m : m.type = "tool")) = 2
    /\ Len(SelectSeq(messages_log, LAMBDA e : e.role = "tool")) = 2
    /\ Len(SelectSeq(messages_log, LAMBDA e : e.role = "assistant")) = 4

\* C21 as stated: the messages logged for an agent turn are only those the
\* agent returned beyond the submitted ones.
C21_TurnLogsOnlyReturnedMessages ==
    /\ []C21_LoggedOnce
    /\ [][C21_Submission /\ C21_TurnLogs(FALSE)]_vars

\* The numbering of a log's messages: users on odd turns, the agent and its
\* tools on even turns from 2 on, and no turn_number below the one before.
C22_Numbered(log) ==
    /\ \A i \in 1..Len(log) :
          /\ log[i].role = "user" => log[i].turn_number % 2 = 1
          /\ log[i].role \in {"assistant", "tool"} =>
                /\ log[i].turn_number % 2 = 0
                /\ log[i].turn_number >= 2
    /\ \A i \in 1..(Len(log) - 1) :
          log[i].turn_number <= log[i + 1].turn_number

C22_SystemFirst(log) ==
    /\ log # << >>
    /\ log[1].role = "system"
    /\ log[1].content = SystemPrompt
    /\ log[1].turn_number = 0

\* The logs run_session has returned, completed or failed.
C22_ReturnedLogs ==
    IF result # None THEN {result[1].messages} ELSE {}

\* C22 (amended): in every log produced by run_session, completed or failed,
\* that holds any message, the first message is the system prompt with
\* turn_number 0; in every log, every user message has an odd turn_number,
\* every assistant and tool message has an even turn_number of at least 2,
\* and turn_number never decreases from one logged message to the next.  The
\* log under construction is held to the same.
C22_LogIsNumberedByTurns ==
    \A log \in C22_ReturnedLogs \cup {messages_log} :
       /\ C22_Numbered(log)
       /\ log # << >> => C22_SystemFirst(log)

\* C22 witness: a completed session returned a log of the system prompt, the
\* persona on turns 1 and 3, and the agent with a tool on turns 2 and 4.
C22_Witness ==
    /\ result # None
    /\ result[1].status = "completed"
    /\ LET log == result[1].messages
       IN  /\ Len(log) >= 6
           /\ \E i \in 1..Len(log) :
                 log[i].role = "tool" /\ log[i].turn_number = 2
           /\ \E i \in 1..Len(log) :
                 log[i].role = "user" /\ log[i].turn_number = 3
           /\ \E i \in 1..Len(log) :
                 log[i].role = "assistant" /\ log[i].turn_number = 4

\* C22 as stated: every log run_session returns has the system prompt as its
\* first message, and is numbered as above.
C22_EveryLogStartsWithSystemPrompt ==
    \A log \in C22_ReturnedLogs :
       /\ C22_Numbered(log)
       /\ C22_SystemFirst(log)

=============================================================================
